---- MODULE Spec2Model ----
(***************************************************************************)
(* Model of the k6 crypto module's signing code: the binary codec          *)
(* (js/modules/k6/crypto/code.go) and the one-shot and chunked sign/verify *)
(* operations built on it.                                                 *)
(*                                                                         *)
(* Go values of type interface{} are records [type, v]; a []byte is a      *)
(* sequence of integers 0..255 and a string whose characters the code      *)
(* inspects is a sequence of one-character strings.  Strings the code only *)
(* compares with literals (formats, digest names, options["type"]) are     *)
(* plain strings.                                                          *)
(***************************************************************************)
EXTENDS Integers, Sequences, FiniteSets, TLC

VARIABLES
    req,   \* the call a script is about to make to a pure function
    ctx,   \* the chunked Signer / Verifier a script holds (NoCtx before creation)
    ret,   \* what the last call returned or threw
    hist   \* history: the chunks appended to ctx and the buffer lengths finalized

vars == <<req, ctx, ret, hist>>

----------------------------------------------------------------------------
(* Bounds of the model *)

\* longest plaintext buffer a chunked context accumulates
MaxPlaintext == 2
\* longest string drawn over CodecAlphabet as codec input
MaxStr == 4
\* longest byte sequence drawn over ByteAlphabet as codec input
MaxBytes == 3
\* number of key pairs per algorithm
NumKeys == 2
\* number of distinct random values a signing call can draw
MaxNonce == 2

----------------------------------------------------------------------------
(* Go values *)

Bytes(b) == [type |-> "bytes", v |-> b]
Str(s) == [type |-> "string", v |-> s]
Number == [type |-> "number", v |-> <<>>]
NoValue == [type |-> "none", v |-> <<>>]

\* the outcome of a Go call: a value with a nil error, or an error
Ok(v) == [err |-> "", v |-> v]
Fail(e) == [err |-> e, v |-> <<>>]

\* F applied to the value of v, v being evaluated once
Bind(v, F(_)) == CHOOSE y \in {F(x) : x \in {v}} : TRUE

RECURSIVE Flatten(_)
Flatten(ss) == IF ss = <<>> THEN <<>> ELSE Head(ss) \o Flatten(Tail(ss))

Indices(seq, x) == {i \in 1..Len(seq) : seq[i] = x}
IndexOf(seq, x) == CHOOSE i \in Indices(seq, x) : TRUE

----------------------------------------------------------------------------
(* encoding/hex and encoding/base64 as the codec uses them *)

HexLower == <<"0","1","2","3","4","5","6","7","8","9","a","b","c","d","e","f">>
HexUpper == <<"0","1","2","3","4","5","6","7","8","9","A","B","C","D","E","F">>

IsHexChar(c) == Indices(HexLower, c) # {} \/ Indices(HexUpper, c) # {}
HexValue(c) ==
    IF Indices(HexLower, c) # {} THEN IndexOf(HexLower, c) - 1
    ELSE IndexOf(HexUpper, c) - 1

RECURSIVE HexPairs(_)
HexPairs(s) ==
    IF s = <<>> THEN <<>>
    ELSE <<(HexValue(s[1]) * 16) + HexValue(s[2])>> \o HexPairs(SubSeq(s, 3, Len(s)))

\* hex.DecodeString: an even number of hex digits of either case
hexDecodeString(s) ==
    IF \E i \in 1..Len(s) : ~IsHexChar(s[i]) THEN Fail("hex.InvalidByteError")
    ELSE IF Len(s) % 2 = 1 THEN Fail("hex.ErrLength")
    ELSE Ok(HexPairs(s))

RECURSIVE hexEncodeToString(_)
hexEncodeToString(b) ==
    IF b = <<>> THEN <<>>
    ELSE <<HexLower[(Head(b) \div 16) + 1], HexLower[(Head(b) % 16) + 1]>>
             \o hexEncodeToString(Tail(b))

B64Alphabet ==
    <<"A","B","C","D","E","F","G","H","I","J","K","L","M","N","O","P",
      "Q","R","S","T","U","V","W","X","Y","Z","a","b","c","d","e","f",
      "g","h","i","j","k","l","m","n","o","p","q","r","s","t","u","v",
      "w","x","y","z","0","1","2","3","4","5","6","7","8","9","+","/">>

IsB64Char(c) == Indices(B64Alphabet, c) # {}
B64Value(c) == IndexOf(B64Alphabet, c) - 1

\* base64.StdEncoding skips carriage returns and line feeds wherever they occur
StripNewlines(s) == SelectSeq(s, LAMBDA c : c # "\n" /\ c # "\r")

\* one quantum of four characters, the last one possibly padded with "="
B64QuantumOk(q, last) ==
    /\ IsB64Char(q[1]) /\ IsB64Char(q[2])
    /\ \/ IsB64Char(q[3]) /\ IsB64Char(q[4])
       \/ last /\ IsB64Char(q[3]) /\ q[4] = "="
       \/ last /\ q[3] = "=" /\ q[4] = "="

B64Quantum(q) ==
    LET a == B64Value(q[1])
        b == B64Value(q[2])
        b1 == (a * 4) + (b \div 16)
    IN  IF q[3] = "=" THEN <<b1>>
        ELSE LET c == B64Value(q[3])
                 b2 == ((b % 16) * 16) + (c \div 4)
             IN  IF q[4] = "=" THEN <<b1, b2>>
                 ELSE <<b1, b2, ((c % 4) * 64) + B64Value(q[4])>>

RECURSIVE B64Quanta(_)
B64Quanta(s) ==
    IF s = <<>> THEN <<>>
    ELSE B64Quantum(SubSeq(s, 1, 4)) \o B64Quanta(SubSeq(s, 5, Len(s)))

\* base64.StdEncoding.DecodeString: padded, non-strict about trailing bits
base64DecodeString(str) ==
    LET s == StripNewlines(str)
        n == Len(s) \div 4
    IN  IF Len(s) % 4 # 0 THEN Fail("base64.CorruptInputError")
        ELSE IF \E k \in 1..n : ~B64QuantumOk(SubSeq(s, (4 * k) - 3, 4 * k), k = n)
             THEN Fail("base64.CorruptInputError")
        ELSE Ok(B64Quanta(s))

B64Char(i) == B64Alphabet[i + 1]

RECURSIVE base64EncodeToString(_)
base64EncodeToString(b) ==
    IF b = <<>> THEN <<>>
    ELSE IF Len(b) = 1 THEN
        <<B64Char(b[1] \div 4), B64Char((b[1] % 4) * 16), "=", "=">>
    ELSE IF Len(b) = 2 THEN
        <<B64Char(b[1] \div 4),
          B64Char(((b[1] % 4) * 16) + (b[2] \div 16)),
          B64Char((b[2] % 16) * 4), "=">>
    ELSE
        <<B64Char(b[1] \div 4),
          B64Char(((b[1] % 4) * 16) + (b[2] \div 16)),
          B64Char(((b[2] % 16) * 4) + (b[3] \div 64)),
          B64Char(b[3] % 64)>>
        \o base64EncodeToString(SubSeq(b, 4, Len(b)))

----------------------------------------------------------------------------
(* The binary codec, code.go *)

decodeBytes(abstracted) ==
    IF abstracted.type = "bytes" THEN Ok(abstracted.v) ELSE Fail("not a byte array")

decodeHex(abstracted) ==
    IF abstracted.type # "string" THEN Fail("not a hex string")
    ELSE hexDecodeString(abstracted.v)

decodeBase64(abstracted) ==
    IF abstracted.type # "string" THEN Fail("not a base64 string")
    ELSE base64DecodeString(abstracted.v)

\* decodeBinaryDetect without its hex attempt
decodeBinaryDetect_SkipsHex(encoded) ==
    IF decodeBytes(encoded).err = "" THEN decodeBytes(encoded)
    ELSE IF decodeBase64(encoded).err = "" THEN decodeBase64(encoded)
    ELSE Fail("unrecognized binary encoding")

\* decodeBinaryDetect attempting base64 before hex
decodeBinaryDetect_Base64First(encoded) ==
    IF decodeBytes(encoded).err = "" THEN decodeBytes(encoded)
    ELSE IF decodeBase64(encoded).err = "" THEN decodeBase64(encoded)
    ELSE IF decodeHex(encoded).err = "" THEN decodeHex(encoded)
    ELSE Fail("unrecognized binary encoding")

decodeBinaryDetect(encoded) ==
    IF decodeBytes(encoded).err = "" THEN decodeBytes(encoded)
    ELSE IF decodeHex(encoded).err = "" THEN decodeHex(encoded)
    ELSE IF decodeBase64(encoded).err = "" THEN decodeBase64(encoded)
    ELSE Fail("unrecognized binary encoding")

\* decodeBinaryKnown falling back to detection for a format it does not know
decodeBinaryKnown_FallsBack(encoded, format) ==
    CASE format = "binary" -> decodeBytes(encoded)
      [] format = "hex" -> decodeHex(encoded)
      [] format = "base64" -> decodeBase64(encoded)
      [] OTHER -> decodeBinaryDetect(encoded)

decodeBinaryKnown(encoded, format) ==
    CASE format = "binary" -> decodeBytes(encoded)
      [] format = "hex" -> decodeHex(encoded)
      [] format = "base64" -> decodeBase64(encoded)
      [] OTHER -> Fail("unsupported binary encoding")

decodeBinary(encoded, format) ==
    IF format # "" THEN decodeBinaryKnown(encoded, format)
    ELSE decodeBinaryDetect(encoded)

\* encodeBinary with the unpadded base64 encoding
encodeBinary_RawBase64(value, format) ==
    CASE format = "" \/ format = "binary" -> Ok(Bytes(value))
      [] format = "hex" -> Ok(Str(hexEncodeToString(value)))
      [] format = "base64" ->
           Ok(Str(SelectSeq(base64EncodeToString(value), LAMBDA c : c # "=")))
      [] OTHER -> [err |-> "unsupported binary encoding", v |-> Str(<<>>)]

\* encodeBinary without the fallthrough of its "" case
encodeBinary_NoFallthrough(value, format) ==
    CASE format = "binary" -> Ok(Bytes(value))
      [] format = "hex" -> Ok(Str(hexEncodeToString(value)))
      [] format = "base64" -> Ok(Str(base64EncodeToString(value)))
      [] OTHER -> [err |-> "unsupported binary encoding", v |-> Str(<<>>)]

\* encodeBinary returns an interface{}: the bytes themselves or a string
encodeBinary(value, format) ==
    CASE format = "" \/ format = "binary" -> Ok(Bytes(value))
      [] format = "hex" -> Ok(Str(hexEncodeToString(value)))
      [] format = "base64" -> Ok(Str(base64EncodeToString(value)))
      [] OTHER -> [err |-> "unsupported binary encoding", v |-> Str(<<>>)]

----------------------------------------------------------------------------
(* Calls and their outcomes *)

Request(op, key, function, value, signature, format, options, nonce) ==
    [op |-> op, key |-> key, function |-> function, value |-> value,
     signature |-> signature, format |-> format, options |-> options, nonce |-> nonce]
NoKey == [Algorithm |-> "", Key |-> [type |-> "nil", id |-> 0]]
NoCtx == [kind |-> "none", function |-> "", functionEncoded |-> "", options |-> {},
          plaintext |-> <<>>]
\* chunks: the non-empty chunks appended since creation; finalized: the buffer
\* length at the first terminal call since creation, if there was one
NoHist == [chunks |-> <<>>, finalized |-> <<>>]

\* kind: "ok" (returned), "error" (returned or threw an error), "panic" (a Go
\* run-time panic); steps: the stages the call went through, in order
Outcome(op, kind, err, value, verified, digest, steps) ==
    [op |-> op, kind |-> kind, err |-> err, value |-> value,
     verified |-> verified, digest |-> digest, steps |-> steps]
NoRet == Outcome("none", "ok", "", NoValue, FALSE, <<>>, <<>>)

Returned(op, value, steps) == Outcome(op, "ok", "", value, FALSE, <<>>, steps)
Threw(op, err, steps) == Outcome(op, "error", err, NoValue, FALSE, <<>>, steps)

\* errors.Wrap(err, message)
Wrap(err, message) == message \o ": " \o err

RECURSIVE SeqsUpTo(_, _)
SeqsUpTo(S, n) ==
    IF n = 0 THEN {<<>>}
    ELSE LET shorter == SeqsUpTo(S, n - 1)
         IN  shorter \cup {Append(s, x) : s \in {t \in shorter : Len(t) = n - 1}, x \in S}

----------------------------------------------------------------------------
(* Keys, digests and the primitives of crypto/rsa, crypto/dsa, crypto/ecdsa *)
(* and encoding/asn1, by their contracts.  A digest is the hash identifier *)
(* followed by the hashed bytes (a collision-free hash), and a signature   *)
(* names its scheme, the key pair, the random value drawn and the digest,  *)
(* so it verifies exactly under that key pair and digest.                  *)

Algorithms == {"RSA", "DSA", "ECDSA"}
KeyIds == 1..NumKeys
Nonces == 1..MaxNonce

PrivateType(alg) ==
    CASE alg = "RSA" -> "*rsa.PrivateKey"
      [] alg = "DSA" -> "*dsa.PrivateKey"
      [] alg = "ECDSA" -> "*ecdsa.PrivateKey"
PublicType(alg) ==
    CASE alg = "RSA" -> "*rsa.PublicKey"
      [] alg = "DSA" -> "*dsa.PublicKey"
      [] alg = "ECDSA" -> "*ecdsa.PublicKey"

\* x509.PrivateKey / x509.PublicKey: an algorithm tag and a payload of dynamic type
KeyOf(alg, type, id) == [Algorithm |-> alg, Key |-> [type |-> type, id |-> id]]
PrivateKey(alg, id) == KeyOf(alg, PrivateType(alg), id)
PublicKey(alg, id) == KeyOf(alg, PublicType(alg), id)

SupportedDigests == {"md5", "sha1", "sha256", "sha384", "sha512"}
HashId(name) ==
    CASE name = "md5" -> 2
      [] name = "sha1" -> 3
      [] name = "sha256" -> 5
      [] name = "sha384" -> 6
      [] name = "sha512" -> 7
HashSize(name) ==
    CASE name = "md5" -> 16
      [] name = "sha1" -> 20
      [] name = "sha256" -> 32
      [] name = "sha384" -> 48
      [] name = "sha512" -> 64

\* the digest name resolved to a crypto.Hash, or an error for an unknown name
decodeFunction(encoded) ==
    IF encoded \in SupportedDigests THEN Ok(encoded)
    ELSE Fail("unsupported hash function")

\* makeHasher(function).Update(plaintext).Digest("binary")
hashPlaintext(function, plaintext) ==
    IF function \in SupportedDigests THEN Ok(<<HashId(function)>> \o plaintext)
    ELSE Fail("could not hash data: invalid return value")

\* SigningOptions is a map[string]string: a missing key reads as the empty string
\* (the map is the set of its <<key, value>> pairs)
Lookup(options, k) ==
    IF \E e \in options : e[1] = k THEN (CHOOSE e \in options : e[1] = k)[2] ELSE <<>>

pss == <<"p", "s", "s">>
pkcs1v15 == <<"p", "k", "c", "s", "1", "v", "1", "5">>
oaep == <<"o", "a", "e", "p">>

DecDigits == <<"0","1","2","3","4","5","6","7","8","9">>
RECURSIVE DecValue(_, _)
DecValue(s, acc) ==
    IF s = <<>> THEN acc
    ELSE DecValue(Tail(s), (acc * 10) + (IndexOf(DecDigits, Head(s)) - 1))

\* strconv.ParseInt(encoded, 10, 64), any error read as 0
decodeInt(encoded) ==
    LET signed == encoded # <<>> /\ Head(encoded) \in {"+", "-"}
        digits == IF signed THEN Tail(encoded) ELSE encoded
    IN  IF digits = <<>> \/ \E i \in 1..Len(digits) : Indices(DecDigits, digits[i]) = {}
        THEN 0
        ELSE IF signed /\ Head(encoded) = "-" THEN 0 - DecValue(digits, 0)
        ELSE DecValue(digits, 0)

decodePssOptions(options) == [SaltLength |-> decodeInt(Lookup(options, "saltLength"))]

\* the salt length of an rsa.PSSOptions: 0 is PSSSaltLengthAuto (the longest
\* the 2048-bit key allows), -1 is PSSSaltLengthEqualsHash
PssMaxSalt(function) == (256 - HashSize(function)) - 2
PssSalt(function, config) ==
    CASE config.SaltLength = 0 -> PssMaxSalt(function)
      [] config.SaltLength = 0 - 1 -> HashSize(function)
      [] OTHER -> config.SaltLength

IsDigestOf(function, digest) == digest # <<>> /\ digest[1] = HashId(function)

rsaSignPKCS1v15(id, function, digest, nonce) ==
    IF ~IsDigestOf(function, digest) THEN Fail("crypto/rsa: input must be hashed message")
    ELSE Ok(<<1, id>> \o digest)

rsaVerifyPKCS1v15(id, function, digest, sig) ==
    IF IsDigestOf(function, digest) /\ sig = <<1, id>> \o digest THEN ""
    ELSE "crypto/rsa: verification error"

rsaSignPSS(id, function, digest, config, nonce) ==
    IF ~IsDigestOf(function, digest) THEN Fail("crypto/rsa: input must be hashed message")
    ELSE IF PssSalt(function, config) \notin 0..PssMaxSalt(function)
         THEN Fail("crypto/rsa: key size too small for PSS signature")
    ELSE Ok(<<2, id, PssSalt(function, config), nonce>> \o digest)

rsaVerifyPSS(id, function, digest, sig, config) ==
    IF /\ IsDigestOf(function, digest)
       /\ Len(sig) = 4 + Len(digest)
       /\ sig[1] = 2
       /\ sig[2] = id
       /\ config.SaltLength = 0 \/ sig[3] = PssSalt(function, config)
       /\ sig[4] >= 1
       /\ SubSeq(sig, 5, Len(sig)) = digest
    THEN ""
    ELSE "crypto/rsa: verification error"

\* dsa.Sign / ecdsa.Sign: the integers (r, s) as big-endian bytes
AlgId(alg) == IF alg = "DSA" THEN 3 ELSE 4
dsaSign(alg, id, digest, nonce) == [R |-> <<nonce>>, S |-> <<AlgId(alg), id, nonce>> \o digest]
dsaVerify(alg, id, digest, R, S) ==
    /\ Len(R) = 1
    /\ R[1] \in 1..127
    /\ S = <<AlgId(alg), id, R[1]>> \o digest

\* asn1.Marshal of struct{R, S *big.Int}: a DER SEQUENCE of two INTEGERs
\* (short-form lengths: the model's signatures are shorter than 128 bytes)
DerInteger(n) == <<2, Len(n)>> \o n
asn1Marshal(signature) ==
    LET body == DerInteger(signature.R) \o DerInteger(signature.S)
    IN  <<48, Len(body)>> \o body

\* one DER INTEGER at the head of b: [err, v, rest]
DerParseInteger(b) ==
    IF Len(b) < 2 THEN [err |-> "asn1: syntax error: truncated tag or length"]
    ELSE IF b[1] # 2 THEN [err |-> "asn1: structure error: tags don't match"]
    ELSE IF b[2] >= 128 \/ Len(b) < 2 + b[2] THEN [err |-> "asn1: syntax error: data truncated"]
    ELSE IF b[2] = 0 THEN [err |-> "asn1: structure error: empty integer"]
    ELSE IF b[2] >= 2 /\ ((b[3] = 0 /\ b[4] < 128) \/ (b[3] = 255 /\ b[4] >= 128))
         THEN [err |-> "asn1: structure error: integer not minimally-encoded"]
    ELSE [err |-> "", v |-> SubSeq(b, 3, 2 + b[2]), rest |-> SubSeq(b, 3 + b[2], Len(b))]

\* asn1.Unmarshal into struct{R, S *big.Int}; bytes after the two INTEGERs,
\* inside or after the SEQUENCE, are left unread
asn1Unmarshal(der) ==
    IF Len(der) < 2 THEN Fail("asn1: syntax error: truncated tag or length")
    ELSE IF der[1] # 48 THEN Fail("asn1: structure error: tags don't match")
    ELSE IF der[2] >= 128 \/ Len(der) < 2 + der[2] THEN Fail("asn1: syntax error: data truncated")
    ELSE LET r == DerParseInteger(SubSeq(der, 3, 2 + der[2]))
         IN  IF r.err # "" THEN Fail(r.err)
             ELSE LET s == DerParseInteger(r.rest)
                  IN  IF s.err # "" THEN Fail(s.err)
                      ELSE Ok([R |-> r.v, S |-> s.v])

----------------------------------------------------------------------------
(* The signature engine *)

validatePublicKey(key) ==
    CASE key.Algorithm = "DSA" ->
           IF key.Key.type # "*dsa.PublicKey" THEN "invalid DSA public key" ELSE ""
      [] key.Algorithm = "ECDSA" ->
           IF key.Key.type # "*ecdsa.PublicKey" THEN "invalid ECDSA public key" ELSE ""
      [] key.Algorithm = "RSA" ->
           IF key.Key.type # "*rsa.PublicKey" THEN "invalid DSA public key" ELSE ""
      [] OTHER -> "invalid public key"

\* validatePrivateKey looking at the algorithm tag only
validatePrivateKey_TagOnly(key) ==
    IF key.Algorithm \in {"DSA", "ECDSA", "RSA"} THEN "" ELSE "invalid private key"

validatePrivateKey(key) ==
    CASE key.Algorithm = "DSA" ->
           IF key.Key.type # "*dsa.PrivateKey" THEN "invalid DSA private key" ELSE ""
      [] key.Algorithm = "ECDSA" ->
           IF key.Key.type # "*ecdsa.PrivateKey" THEN "invalid ECDSA private key" ELSE ""
      [] key.Algorithm = "RSA" ->
           IF key.Key.type # "*rsa.PrivateKey" THEN "invalid RSA private key" ELSE ""
      [] OTHER -> "invalid private key"

decodeSignature_HexOnly(encoded) ==
    LET r == decodeBinaryKnown(encoded, "hex")
    IN  IF r.err # "" THEN Fail(Wrap(r.err, "could not decode signature")) ELSE r

decodeSignature(encoded) ==
    LET r == decodeBinaryDetect(encoded)
    IN  IF r.err # "" THEN Fail(Wrap(r.err, "could not decode signature")) ELSE r

decodePlaintext(encoded) ==
    LET r == decodeBinaryDetect(encoded)
    IN  IF r.err # "" THEN Fail(Wrap(r.err, "could not decode data")) ELSE r

\* the result of a signing or verifying stage: kind "ok", "error" or "panic",
\* the raw signature or the verdict, and the primitives it ran
Stage(kind, err, sig, verified, steps) ==
    [kind |-> kind, err |-> err, sig |-> sig, verified |-> verified, steps |-> steps]
StageOf(r, step) ==
    IF r.err # "" THEN Stage("error", r.err, <<>>, FALSE, <<step>>)
    ELSE Stage("ok", "", r.v, FALSE, <<step>>)
Verdict(verified, step) == Stage("ok", "", <<>>, verified, <<step>>)
Panic(step) == Stage("panic", "interface conversion", <<>>, FALSE, <<step>>)
\* a stage an earlier throw kept from running
NotRun == Stage("none", "", <<>>, FALSE, <<>>)

signPKCS(signer, function, digest, nonce) ==
    LET r == rsaSignPKCS1v15(signer.id, function, digest, nonce)
    IN  StageOf(IF r.err # "" THEN Fail(Wrap(r.err, "failed to sign message")) ELSE r,
                "rsa.SignPKCS1v15")

signPSS(signer, function, digest, options, nonce) ==
    LET r == rsaSignPSS(signer.id, function, digest, decodePssOptions(options), nonce)
    IN  StageOf(IF r.err # "" THEN Fail(Wrap(r.err, "failed to sign message")) ELSE r,
                "rsa.SignPSS")

\* signRSA taking "pkcs1v15" for PKCS#1 v1.5 as well
signRSA_AcceptsPkcs1v15(signer, function, digest, options, nonce) ==
    CASE Lookup(options, "type") \in {<<>>, pkcs1v15} ->
           signPKCS(signer, function, digest, nonce)
      [] Lookup(options, "type") = pss ->
           signPSS(signer, function, digest, options, nonce)
      [] OTHER -> Stage("error", "unsupported type", <<>>, FALSE, <<>>)

signRSA(signer, function, digest, options, nonce) ==
    CASE Lookup(options, "type") = <<>> -> signPKCS(signer, function, digest, nonce)
      [] Lookup(options, "type") = pss -> signPSS(signer, function, digest, options, nonce)
      [] OTHER -> Stage("error", "unsupported type", <<>>, FALSE, <<>>)

signDSA(signer, digest, nonce) ==
    StageOf(Ok(asn1Marshal(dsaSign("DSA", signer.id, digest, nonce))), "dsa.Sign")

signECDSA(signer, digest, nonce) ==
    StageOf(Ok(asn1Marshal(dsaSign("ECDSA", signer.id, digest, nonce))), "ecdsa.Sign")

\* executeSign: [kind, err, value, sig, steps]; a failed type assertion panics
executeSign(signer, function, digest, format, options, nonce) ==
    Bind(
            CASE signer.Algorithm = "DSA" ->
                   IF signer.Key.type # "*dsa.PrivateKey" THEN Panic("signer.Key.(*dsa.PrivateKey)")
                   ELSE signDSA(signer.Key, digest, nonce)
              [] signer.Algorithm = "ECDSA" ->
                   IF signer.Key.type # "*ecdsa.PrivateKey" THEN Panic("signer.Key.(*ecdsa.PrivateKey)")
                   ELSE signECDSA(signer.Key, digest, nonce)
              [] signer.Algorithm = "RSA" ->
                   IF signer.Key.type # "*rsa.PrivateKey" THEN Panic("signer.Key.(*rsa.PrivateKey)")
                   ELSE signRSA(signer.Key, function, digest, options, nonce)
              [] OTHER -> Stage("error", "invalid private key", <<>>, FALSE, <<>>),
        LAMBDA signed :
            IF signed.kind # "ok" THEN [signed EXCEPT !.sig = <<>>] @@ [value |-> NoValue]
            ELSE Bind(encodeBinary(signed.sig, format), LAMBDA encoded :
                    IF encoded.err # ""
                    THEN [kind |-> "error", err |-> encoded.err, value |-> NoValue,
                          sig |-> signed.sig, verified |-> FALSE,
                          steps |-> Append(signed.steps, "encodeBinary")]
                    ELSE [kind |-> "ok", err |-> "", value |-> encoded.v,
                          sig |-> signed.sig, verified |-> FALSE,
                          steps |-> Append(signed.steps, "encodeBinary")]))

\* verifyPKCS with the test of the error inverted
verifyPKCS_Inverted(signer, function, digest, signature) ==
    Verdict(rsaVerifyPKCS1v15(signer.id, function, digest, signature) # "", "rsa.VerifyPKCS1v15")

verifyPKCS(signer, function, digest, signature) ==
    Verdict(rsaVerifyPKCS1v15(signer.id, function, digest, signature) = "", "rsa.VerifyPKCS1v15")

verifyPSS(signer, function, digest, signature, options) ==
    Verdict(rsaVerifyPSS(signer.id, function, digest, signature, decodePssOptions(options)) = "",
            "rsa.VerifyPSS")

\* verifyRSA falling back to PKCS#1 v1.5 for a type it does not know
verifyRSA_DefaultsToPKCS(signer, function, digest, signature, options) ==
    CASE Lookup(options, "type") = pss ->
           verifyPSS(signer, function, digest, signature, options)
      [] OTHER -> verifyPKCS(signer, function, digest, signature)

verifyRSA(signer, function, digest, signature, options) ==
    CASE Lookup(options, "type") = <<>> -> verifyPKCS(signer, function, digest, signature)
      [] Lookup(options, "type") = pss -> verifyPSS(signer, function, digest, signature, options)
      [] OTHER -> Stage("error", "unsupported type", <<>>, FALSE, <<>>)

\* verifyDSA reporting a signature that does not verify as an error
verifyDSA_ThrowsOnMismatch(signer, digest, signatureDer) ==
    LET signature == asn1Unmarshal(signatureDer)
    IN  IF signature.err # "" THEN Stage("error", signature.err, <<>>, FALSE, <<"asn1.Unmarshal">>)
        ELSE IF dsaVerify("DSA", signer.id, digest, signature.v.R, signature.v.S)
        THEN Verdict(TRUE, "dsa.Verify")
        ELSE Stage("error", "invalid signature", <<>>, FALSE, <<"dsa.Verify">>)

verifyDSA(signer, digest, signatureDer) ==
    LET signature == asn1Unmarshal(signatureDer)
    IN  IF signature.err # "" THEN Stage("error", signature.err, <<>>, FALSE, <<"asn1.Unmarshal">>)
        ELSE Verdict(dsaVerify("DSA", signer.id, digest, signature.v.R, signature.v.S), "dsa.Verify")

verifyECDSA(signer, digest, signatureDer) ==
    LET signature == asn1Unmarshal(signatureDer)
    IN  IF signature.err # "" THEN Stage("error", signature.err, <<>>, FALSE, <<"asn1.Unmarshal">>)
        ELSE Verdict(dsaVerify("ECDSA", signer.id, digest, signature.v.R, signature.v.S),
                     "ecdsa.Verify")

executeVerify(signer, function, digest, signature, options) ==
    CASE signer.Algorithm = "DSA" ->
           IF signer.Key.type # "*dsa.PublicKey" THEN Panic("signer.Key.(*dsa.PublicKey)")
           ELSE verifyDSA(signer.Key, digest, signature)
      [] signer.Algorithm = "ECDSA" ->
           IF signer.Key.type # "*ecdsa.PublicKey" THEN Panic("signer.Key.(*ecdsa.PublicKey)")
           ELSE verifyECDSA(signer.Key, digest, signature)
      [] signer.Algorithm = "RSA" ->
           IF signer.Key.type # "*rsa.PublicKey" THEN Panic("signer.Key.(*rsa.PublicKey)")
           ELSE verifyRSA(signer.Key, function, digest, signature, options)
      [] OTHER -> Stage("error", "invalid public key", <<>>, FALSE, <<>>)

\* what prepareSign / prepareVerify hand on, or the error they throw
Prepared(err, function, digest, signature, steps) ==
    [err |-> err, function |-> function, digest |-> digest, signature |-> signature,
     steps |-> steps]

\* prepareSign looking at the digest name before the key
prepareSign_DigestFirst(signer, functionEncoded, plaintextEncoded) ==
    LET function == decodeFunction(functionEncoded)
        plaintext == decodePlaintext(plaintextEncoded)
        digest == hashPlaintext(functionEncoded, plaintext.v)
    IN  IF function.err # ""
        THEN Prepared(function.err, "", <<>>, <<>>, <<"decodeFunction">>)
        ELSE IF validatePrivateKey(signer) # ""
        THEN Prepared(validatePrivateKey(signer), "", <<>>, <<>>,
                      <<"decodeFunction", "validatePrivateKey">>)
        ELSE IF plaintext.err # ""
        THEN Prepared(plaintext.err, "", <<>>, <<>>,
                      <<"decodeFunction", "validatePrivateKey", "decodePlaintext">>)
        ELSE Prepared(digest.err, function.v, digest.v, <<>>,
                      <<"decodeFunction", "validatePrivateKey", "decodePlaintext",
                        "hashPlaintext">>)

prepareSign(signer, functionEncoded, plaintextEncoded) ==
    LET function == decodeFunction(functionEncoded)
        plaintext == decodePlaintext(plaintextEncoded)
        digest == hashPlaintext(functionEncoded, plaintext.v)
    IN  IF validatePrivateKey(signer) # ""
        THEN Prepared(validatePrivateKey(signer), "", <<>>, <<>>, <<"validatePrivateKey">>)
        ELSE IF function.err # ""
        THEN Prepared(function.err, "", <<>>, <<>>, <<"validatePrivateKey", "decodeFunction">>)
        ELSE IF plaintext.err # ""
        THEN Prepared(plaintext.err, "", <<>>, <<>>,
                      <<"validatePrivateKey", "decodeFunction", "decodePlaintext">>)
        ELSE IF digest.err # ""
        THEN Prepared(digest.err, "", <<>>, <<>>,
                      <<"validatePrivateKey", "decodeFunction", "decodePlaintext",
                        "hashPlaintext">>)
        ELSE Prepared("", function.v, digest.v, <<>>,
                      <<"validatePrivateKey", "decodeFunction", "decodePlaintext",
                        "hashPlaintext">>)

prepareVerify(signer, functionEncoded, plaintextEncoded, signatureEncoded) ==
    LET function == decodeFunction(functionEncoded)
        plaintext == decodePlaintext(plaintextEncoded)
        digest == hashPlaintext(functionEncoded, plaintext.v)
        signature == decodeSignature(signatureEncoded)
    IN  IF validatePublicKey(signer) # ""
        THEN Prepared(validatePublicKey(signer), "", <<>>, <<>>, <<"validatePublicKey">>)
        ELSE IF function.err # ""
        THEN Prepared(function.err, "", <<>>, <<>>, <<"validatePublicKey", "decodeFunction">>)
        ELSE IF plaintext.err # ""
        THEN Prepared(plaintext.err, "", <<>>, <<>>,
                      <<"validatePublicKey", "decodeFunction", "decodePlaintext">>)
        ELSE IF digest.err # ""
        THEN Prepared(digest.err, "", <<>>, <<>>,
                      <<"validatePublicKey", "decodeFunction", "decodePlaintext",
                        "hashPlaintext">>)
        ELSE IF signature.err # ""
        THEN Prepared(signature.err, "", <<>>, <<>>,
                      <<"validatePublicKey", "decodeFunction", "decodePlaintext",
                        "hashPlaintext", "decodeSignature">>)
        ELSE Prepared("", function.v, digest.v, signature.v,
                      <<"validatePublicKey", "decodeFunction", "decodePlaintext",
                        "hashPlaintext", "decodeSignature">>)

\* []byte(s) of a Go string of ASCII characters: the code of each character
charCode(c) ==
    IF Indices(B64Alphabet, c) # {}
    THEN LET i == IndexOf(B64Alphabet, c) - 1
         IN  IF i < 26 THEN 65 + i
             ELSE IF i < 52 THEN 97 + (i - 26)
             ELSE IF i < 62 THEN 48 + (i - 52)
             ELSE IF i = 62 THEN 43 ELSE 47
    ELSE CASE c = "=" -> 61
           [] c = "-" -> 45
           [] c = "\n" -> 10
stringBytes(s) == [i \in 1..Len(s) |-> charCode(s[i])]

prepareSignString(signer, functionEncoded, plaintextEncoded) ==
    LET function == decodeFunction(functionEncoded)
        plaintext == stringBytes(plaintextEncoded)
        digest == hashPlaintext(functionEncoded, plaintext)
    IN  IF validatePrivateKey(signer) # ""
        THEN Prepared(validatePrivateKey(signer), "", <<>>, <<>>, <<"validatePrivateKey">>)
        ELSE IF function.err # ""
        THEN Prepared(function.err, "", <<>>, <<>>, <<"validatePrivateKey", "decodeFunction">>)
        ELSE IF digest.err # ""
        THEN Prepared(digest.err, "", <<>>, <<>>,
                      <<"validatePrivateKey", "decodeFunction", "hashPlaintext">>)
        ELSE Prepared("", function.v, digest.v, <<>>,
                      <<"validatePrivateKey", "decodeFunction", "hashPlaintext">>)

\* prepareVerifyString handing the message to the codec as prepareVerify does
prepareVerifyString_Decodes(signer, functionEncoded, plaintextEncoded, signatureEncoded) ==
    prepareVerify(signer, functionEncoded, Str(plaintextEncoded), signatureEncoded)

prepareVerifyString(signer, functionEncoded, plaintextEncoded, signatureEncoded) ==
    LET function == decodeFunction(functionEncoded)
        plaintext == stringBytes(plaintextEncoded)
        digest == hashPlaintext(functionEncoded, plaintext)
        signature == decodeSignature(signatureEncoded)
    IN  IF validatePublicKey(signer) # ""
        THEN Prepared(validatePublicKey(signer), "", <<>>, <<>>, <<"validatePublicKey">>)
        ELSE IF function.err # ""
        THEN Prepared(function.err, "", <<>>, <<>>, <<"validatePublicKey", "decodeFunction">>)
        ELSE IF digest.err # ""
        THEN Prepared(digest.err, "", <<>>, <<>>,
                      <<"validatePublicKey", "decodeFunction", "hashPlaintext">>)
        ELSE IF signature.err # ""
        THEN Prepared(signature.err, "", <<>>, <<>>,
                      <<"validatePublicKey", "decodeFunction", "hashPlaintext",
                        "decodeSignature">>)
        ELSE Prepared("", function.v, digest.v, signature.v,
                      <<"validatePublicKey", "decodeFunction", "hashPlaintext",
                        "decodeSignature">>)

\* Crypto.Sign
Sign(signer, functionEncoded, plaintextEncoded, format, options, nonce) ==
    Bind(prepareSign(signer, functionEncoded, plaintextEncoded), LAMBDA p :
        IF p.err # "" THEN Threw("Sign", p.err, p.steps)
        ELSE Bind(executeSign(signer, p.function, p.digest, format, options, nonce), LAMBDA e :
                Outcome("Sign", e.kind, e.err, e.value, FALSE, p.digest,
                        p.steps \o <<"executeSign">> \o e.steps)))

\* Crypto.Verify
Verify(signer, functionEncoded, plaintextEncoded, signatureEncoded, options) ==
    Bind(prepareVerify(signer, functionEncoded, plaintextEncoded, signatureEncoded), LAMBDA p :
        IF p.err # "" THEN Threw("Verify", p.err, p.steps)
        ELSE Bind(executeVerify(signer, p.function, p.digest, p.signature, options), LAMBDA e :
                Outcome("Verify", e.kind, e.err, NoValue, e.verified, p.digest,
                        p.steps \o <<"executeVerify">> \o e.steps)))

\* Crypto.SignString
SignString(signer, functionEncoded, plaintextEncoded, format, options, nonce) ==
    Bind(prepareSignString(signer, functionEncoded, plaintextEncoded), LAMBDA p :
        IF p.err # "" THEN Threw("SignString", p.err, p.steps)
        ELSE Bind(executeSign(signer, p.function, p.digest, format, options, nonce), LAMBDA e :
                Outcome("SignString", e.kind, e.err, e.value, FALSE, p.digest,
                        p.steps \o <<"executeSign">> \o e.steps)))

\* Crypto.VerifyString
VerifyString(signer, functionEncoded, plaintextEncoded, signatureEncoded, options) ==
    Bind(prepareVerifyString(signer, functionEncoded, plaintextEncoded, signatureEncoded),
         LAMBDA p :
        IF p.err # "" THEN Threw("VerifyString", p.err, p.steps)
        ELSE Bind(executeVerify(signer, p.function, p.digest, p.signature, options), LAMBDA e :
                Outcome("VerifyString", e.kind, e.err, NoValue, e.verified, p.digest,
                        p.steps \o <<"executeVerify">> \o e.steps)))

----------------------------------------------------------------------------
(* The codec as a pure function: Init draws the arguments, the action applies it *)

CodecAlphabet == {"d", "e", "A", "4", "Q", "=", "-", "\n"}
ByteAlphabet == {0, 65, 255}
deadbeef == <<"d","e","a","d","b","e","e","f">>

CodecStrings == SeqsUpTo(CodecAlphabet, MaxStr) \cup {deadbeef}
CodecBytes == SeqsUpTo(ByteAlphabet, MaxBytes)
CodecValues ==
    {Str(s) : s \in CodecStrings} \cup {Bytes(b) : b \in CodecBytes} \cup {Number}
Formats == {"", "binary", "hex", "base64", "utf8"}

CodecRequest(op, value, format) == Request(op, NoKey, "", value, NoValue, format, {}, 0)
IsCodecRequest(r) ==
    \/ \E x \in CodecValues, f \in Formats : r = CodecRequest("decodeBinary", x, f)
    \/ \E b \in CodecBytes, f \in Formats : r = CodecRequest("encodeBinary", Bytes(b), f)

InitCodec ==
    /\ IsCodecRequest(req)
    /\ ctx = NoCtx
    /\ ret = NoRet
    /\ hist = NoHist

DecodeBinary ==
    /\ req.op = "decodeBinary"
    /\ ret = NoRet
    /\ LET r == decodeBinary(req.value, req.format)
       IN  ret' = IF r.err = "" THEN Returned(req.op, Bytes(r.v), <<>>)
                  ELSE Threw(req.op, r.err, <<>>)
    /\ UNCHANGED <<req, ctx, hist>>

EncodeBinary ==
    /\ req.op = "encodeBinary"
    /\ ret = NoRet
    /\ LET r == encodeBinary(req.value.v, req.format)
       IN  ret' = IF r.err = "" THEN Returned(req.op, r.v, <<>>)
                  ELSE Threw(req.op, r.err, <<>>)
    /\ UNCHANGED <<req, ctx, hist>>

\* the script hands what encodeBinary returned to decodeBinary, same format
DecodeEncoded ==
    /\ ret.op = "encodeBinary"
    /\ ret.kind = "ok"
    /\ req' = CodecRequest("decodeBinary", ret.value, req.format)
    /\ ret' = NoRet
    /\ hist' = [hist EXCEPT !.chunks = <<req.value.v>>]
    /\ ctx' = ctx

\* verify's signature decoder, which is given no format
DecodeSignature ==
    /\ req.op = "decodeSignature"
    /\ ret = NoRet
    /\ LET r == decodeSignature(req.value)
       IN  ret' = IF r.err = "" THEN Returned(req.op, Bytes(r.v), <<>>)
                  ELSE Threw(req.op, r.err, <<>>)
    /\ UNCHANGED <<req, ctx, hist>>

\* the script hands the signature sign encoded to verify; hist keeps the
\* signature bytes and the format they were emitted in
VerifyEncoded ==
    /\ ret.op = "encodeBinary"
    /\ ret.kind = "ok"
    /\ req' = CodecRequest("decodeSignature", ret.value, "")
    /\ ret' = NoRet
    /\ hist' = [chunks |-> <<req.value.v>>, finalized |-> <<req.format>>]
    /\ ctx' = ctx

NextCodec == DecodeBinary \/ EncodeBinary \/ DecodeEncoded \/ DecodeSignature \/ VerifyEncoded

SpecCodec == InitCodec /\ [][NextCodec]_vars

----------------------------------------------------------------------------
(* The arguments scripts pass *)

ValidPrivateKeys == {PrivateKey(a, i) : a \in Algorithms, i \in KeyIds}
ValidPublicKeys == {PublicKey(a, i) : a \in Algorithms, i \in KeyIds}
\* an unknown tag, and tags whose payload is of another type
InvalidPrivateKeys ==
    {KeyOf("ED25519", "*rsa.PrivateKey", 1), KeyOf("RSA", "*dsa.PrivateKey", 1),
     KeyOf("ECDSA", "*ecdsa.PublicKey", 1)}
InvalidPublicKeys ==
    {KeyOf("ED25519", "*rsa.PublicKey", 1), KeyOf("RSA", "*dsa.PublicKey", 1),
     KeyOf("DSA", "*dsa.PrivateKey", 1)}
PrivateKeys == ValidPrivateKeys \cup InvalidPrivateKeys
PublicKeys == ValidPublicKeys \cup InvalidPublicKeys

DigestNames == {"sha256", "md5", "whirlpool"}

\* messages: raw bytes, the hex text of another byte, text in no encoding
Messages == {Bytes(<<65>>), Str(<<"4", "2">>), Str(<<"-">>)}

OptionSets ==
    {{}, {<<"type", pss>>}, {<<"type", pss>>, <<"saltLength", <<"2", "0">>>>},
     {<<"type", pkcs1v15>>}, {<<"type", oaep>>},
     {<<"type", pss>>, <<"saltLength", <<"x">>>>}, {<<"mgf", <<"x">>>>}}

\* the signatures honest signers produce, in the encodings Sign can emit
SignerOptionSets == {{}, {<<"type", pss>>}, {<<"type", pss>>, <<"saltLength", <<"2", "0">>>>}}
HonestSignatures ==
    {Sign(k, f, m, "", o, n).value :
        k \in ValidPrivateKeys, f \in {"sha256", "md5"}, m \in {Bytes(<<65>>), Bytes(<<66>>)},
        o \in SignerOptionSets, n \in Nonces}
    \cup {Sign(PrivateKey(a, 1), "sha256", Bytes(<<65>>), fmt, o, 1).value :
             a \in Algorithms, fmt \in {"hex", "base64"}, o \in {{}, {<<"type", pss>>}}}
\* bytes that are no signature, a well-formed (r, s) pair nobody signed, the
\* pair with a third INTEGER in its SEQUENCE, text in no encoding, a value
\* that is neither bytes nor text
ForgedSignatures ==
    {Bytes(<<>>), Bytes(<<1, 1>>), Bytes(<<48, 6, 2, 1, 1, 2, 1, 1>>),
     Bytes(<<48, 9, 2, 1, 1, 2, 1, 1, 2, 1, 1>>), Str(<<"-">>), Number}
\* honest DSA and ECDSA signatures with a byte added after their SEQUENCE
TrailedSignatures ==
    {Bytes(Sign(PrivateKey(a, 1), "sha256", Bytes(<<65>>), "", {}, 1).value.v \o <<0>>) :
        a \in {"DSA", "ECDSA"}}
Signatures == HonestSignatures \cup ForgedSignatures \cup TrailedSignatures

IsSignRequest(r) ==
    \E k \in PrivateKeys, f \in DigestNames, m \in Messages, fmt \in Formats,
       o \in OptionSets, n \in Nonces :
        r = Request("Sign", k, f, m, NoValue, fmt, o, n)
IsVerifyRequest(r) ==
    \E k \in PublicKeys, f \in DigestNames, m \in Messages, sig \in Signatures,
       o \in OptionSets :
        r = Request("Verify", k, f, m, sig, "", o, 0)
\* string messages: the empty one, hex text, base64 text, text in no encoding
StringMessages == {<<>>, <<"4", "2">>, <<"Q", "Q", "=", "=">>, <<"-">>}
\* what SignString and Sign return for string messages, and no signature
StringSignatures ==
    {SignString(k, "sha256", m, "", o, 1).value :
        k \in ValidPrivateKeys, m \in {<<>>, <<"4", "2">>}, o \in {{}, {<<"type", pss>>}}}
    \cup {Sign(k, "sha256", Str(<<"4", "2">>), "", {}, 1).value : k \in ValidPrivateKeys}
    \cup {Bytes(<<>>), Str(<<"-">>)}
IsSignStringRequest(r) ==
    \E k \in PrivateKeys, f \in DigestNames, m \in StringMessages, fmt \in Formats,
       o \in OptionSets, n \in Nonces :
        r = Request("SignString", k, f, Str(m), NoValue, fmt, o, n)
IsVerifyStringRequest(r) ==
    \E k \in PublicKeys, f \in DigestNames, m \in StringMessages, sig \in StringSignatures,
       o \in OptionSets :
        r = Request("VerifyString", k, f, Str(m), sig, "", o, 0)
\* a script that works with a chunked Signer or Verifier
Session == Request("session", NoKey, "", NoValue, NoValue, "", {}, 0)
SessionOps ==
    {"session", "CreateSign", "CreateVerify", "Signer.Update", "Verifier.Update",
     "Signer.Sign", "Verifier.Verify"}

----------------------------------------------------------------------------
(* The one-shot calls: Init draws the arguments, the action applies the call *)

Init ==
    /\ \/ IsSignRequest(req)
       \/ IsVerifyRequest(req)
       \/ IsSignStringRequest(req)
       \/ IsVerifyStringRequest(req)
       \/ req = Session
    /\ ctx = NoCtx
    /\ ret = NoRet
    /\ hist = NoHist

CryptoSign ==
    /\ req.op = "Sign"
    /\ ret = NoRet
    /\ ret' = Sign(req.key, req.function, req.value, req.format, req.options, req.nonce)
    /\ UNCHANGED <<req, ctx, hist>>

CryptoVerify ==
    /\ req.op = "Verify"
    /\ ret = NoRet
    /\ ret' = Verify(req.key, req.function, req.value, req.signature, req.options)
    /\ UNCHANGED <<req, ctx, hist>>

CryptoSignString ==
    /\ req.op = "SignString"
    /\ ret = NoRet
    /\ ret' = SignString(req.key, req.function, req.value.v, req.format, req.options,
                         req.nonce)
    /\ UNCHANGED <<req, ctx, hist>>

CryptoVerifyString ==
    /\ req.op = "VerifyString"
    /\ ret = NoRet
    /\ ret' = VerifyString(req.key, req.function, req.value.v, req.signature, req.options)
    /\ UNCHANGED <<req, ctx, hist>>

----------------------------------------------------------------------------
(* The chunked Signer and Verifier *)

SessionOptionSets == {{}, {<<"type", pss>>}, {<<"type", oaep>>}}
SessionFormats == {"", "hex", "utf8"}
\* chunks: raw bytes, hex text, base64 text, text in no encoding
Chunks ==
    {Bytes(<<>>), Bytes(<<65>>), Bytes(<<66>>), Bytes(<<65, 66>>), Str(<<"4", "2">>),
     Str(<<"Q", "Q", "=", "=">>), Str(<<"-">>)}

NewContext(kind, function, functionEncoded, options) ==
    [kind |-> kind, function |-> function, functionEncoded |-> functionEncoded,
     options |-> options, plaintext |-> <<>>]

\* the signatures a verifier of c's buffer may be handed for key k: honest
\* ones over the buffer and over another message, by each key pair of k's
\* algorithm, and the forged ones
SessionSignatures(c, k) ==
    LET alg == IF k.Algorithm \in Algorithms THEN k.Algorithm ELSE "RSA"
        o == IF c.options \in SignerOptionSets THEN c.options ELSE {}
    IN  {Sign(PrivateKey(alg, i), c.functionEncoded, Bytes(m), "", o, n).value :
            i \in KeyIds, m \in {c.plaintext, c.plaintext \o <<66>>}, n \in Nonces}
        \cup ForgedSignatures

Finalized(h, c) ==
    IF h.finalized = <<>> THEN [h EXCEPT !.finalized = <<Len(c.plaintext)>>] ELSE h

CreateVerify ==
    /\ req = Session
    /\ ret = NoRet
    /\ ctx = NoCtx
    /\ \E f \in DigestNames, o \in SessionOptionSets :
         LET function == decodeFunction(f)
         IN  /\ req' = Request("CreateVerify", NoKey, f, NoValue, NoValue, "", o, 0)
             /\ IF function.err # ""
                THEN /\ ret' = Threw("CreateVerify", function.err, <<"decodeFunction">>)
                     /\ ctx' = ctx
                ELSE /\ ret' = Returned("CreateVerify", NoValue, <<"decodeFunction">>)
                     /\ ctx' = NewContext("Verifier", function.v, f, o)
    /\ hist' = NoHist

CreateSign ==
    /\ req = Session
    /\ ret = NoRet
    /\ ctx = NoCtx
    /\ \E f \in DigestNames, o \in SessionOptionSets :
         LET function == decodeFunction(f)
         IN  /\ req' = Request("CreateSign", NoKey, f, NoValue, NoValue, "", o, 0)
             /\ IF function.err # ""
                THEN /\ ret' = Threw("CreateSign", function.err, <<"decodeFunction">>)
                     /\ ctx' = ctx
                ELSE /\ ret' = Returned("CreateSign", NoValue, <<"decodeFunction">>)
                     /\ ctx' = NewContext("Signer", function.v, f, o)
    /\ hist' = NoHist

\* an Update that replaces the buffer by the addition
appendBytes_Replaces(plaintext, addition) == addition

\* an Update that puts the addition in front of the buffer
appendBytes_Prepends(plaintext, addition) == addition \o plaintext

\* append(plaintext, addition...)
appendBytes(plaintext, addition) == plaintext \o addition

\* Update of either kind: decode the addition, throw or append it
\* Update appending the bytes it was given before it throws the decoding error
Update_AppendsUndecoded(op, additionEncoded, format) ==
    \E addition \in {decodeBinary(additionEncoded, format)} :
        \E given \in {IF addition.err = "" THEN addition.v
                       ELSE IF additionEncoded.type = "bytes" THEN additionEncoded.v
                       ELSE <<>>} :
            /\ req' = Request(op, NoKey, "", additionEncoded, NoValue, format, {}, 0)
            /\ Len(ctx.plaintext) + Len(given) <= MaxPlaintext
            /\ ret' = IF addition.err # "" THEN Threw(op, addition.err, <<"decodeBinary">>)
                      ELSE Returned(op, NoValue, <<"decodeBinary", "append">>)
            /\ ctx' = [ctx EXCEPT !.plaintext = appendBytes(ctx.plaintext, given)]
            /\ hist' = IF addition.err # "" \/ given = <<>> THEN hist
                       ELSE [hist EXCEPT !.chunks = Append(hist.chunks, given)]

\* Update returning normally, nothing appended, when decoding fails
Update_SwallowsError(op, additionEncoded, format) ==
    \E addition \in {decodeBinary(additionEncoded, format)} :
        /\ req' = Request(op, NoKey, "", additionEncoded, NoValue, format, {}, 0)
        /\ IF addition.err # ""
           THEN /\ ret' = Returned(op, NoValue, <<"decodeBinary">>)
                /\ UNCHANGED <<ctx, hist>>
           ELSE /\ Len(ctx.plaintext) + Len(addition.v) <= MaxPlaintext
                /\ ret' = Returned(op, NoValue, <<"decodeBinary", "append">>)
                /\ ctx' = [ctx EXCEPT !.plaintext = appendBytes(ctx.plaintext, addition.v)]
                /\ hist' = IF addition.v = <<>> THEN hist
                           ELSE [hist EXCEPT !.chunks = Append(hist.chunks, addition.v)]

Update(op, additionEncoded, format) ==
    \E addition \in {decodeBinary(additionEncoded, format)} :
        /\ req' = Request(op, NoKey, "", additionEncoded, NoValue, format, {}, 0)
        /\ IF addition.err # ""
           THEN /\ ret' = Threw(op, addition.err, <<"decodeBinary">>)
                /\ UNCHANGED <<ctx, hist>>
           ELSE /\ Len(ctx.plaintext) + Len(addition.v) <= MaxPlaintext
                /\ ret' = Returned(op, NoValue, <<"decodeBinary", "append">>)
                /\ ctx' = [ctx EXCEPT !.plaintext = appendBytes(ctx.plaintext, addition.v)]
                /\ hist' = IF addition.v = <<>> THEN hist
                           ELSE [hist EXCEPT !.chunks = Append(hist.chunks, addition.v)]

VerifierUpdate ==
    /\ req = Session
    /\ ret = NoRet
    /\ ctx.kind = "Verifier"
    /\ \E additionEncoded \in Chunks, format \in Formats :
         Update("Verifier.Update", additionEncoded, format)

SignerUpdate ==
    /\ req = Session
    /\ ret = NoRet
    /\ ctx.kind = "Signer"
    /\ \E additionEncoded \in Chunks, format \in Formats :
         Update("Signer.Update", additionEncoded, format)

VerifierVerify ==
    /\ req = Session
    /\ ret = NoRet
    /\ ctx.kind = "Verifier"
    /\ \E signer \in PublicKeys :
         \E signatureEncoded \in SessionSignatures(ctx, signer) :
           \E signature \in {decodeSignature(signatureEncoded)},
              digest \in {hashPlaintext(ctx.functionEncoded, ctx.plaintext)} :
           \E e \in {IF signature.err # "" \/ digest.err # "" THEN NotRun
                      ELSE executeVerify(signer, ctx.function, digest.v, signature.v,
                                         ctx.options)} :
               /\ req' = Request("Verifier.Verify", signer, "", NoValue, signatureEncoded,
                                 "", {}, 0)
               /\ IF signature.err # ""
                  THEN /\ ret' = Threw("Verifier.Verify", signature.err, <<"decodeSignature">>)
                       /\ hist' = hist
                  ELSE IF digest.err # ""
                  THEN /\ ret' = Threw("Verifier.Verify", digest.err,
                                       <<"decodeSignature", "hashPlaintext">>)
                       /\ hist' = Finalized(hist, ctx)
                  ELSE /\ ret' = Outcome("Verifier.Verify", e.kind, e.err, NoValue, e.verified,
                                         digest.v,
                                         <<"decodeSignature", "hashPlaintext", "executeVerify">>
                                             \o e.steps)
                       /\ hist' = Finalized(hist, ctx)
    /\ ctx' = ctx

\* Signer.Sign, which leaves the signer as after
SignerSignLeaving(after) ==
    /\ req = Session
    /\ ret = NoRet
    /\ ctx.kind = "Signer"
    /\ \E key \in PrivateKeys, format \in SessionFormats, nonce \in Nonces :
         \E digest \in {hashPlaintext(ctx.functionEncoded, ctx.plaintext)} :
         \E e \in {IF digest.err # "" THEN NotRun @@ [value |-> NoValue]
                    ELSE executeSign(key, ctx.function, digest.v, format, ctx.options,
                                     nonce)} :
             /\ req' = Request("Signer.Sign", key, "", NoValue, NoValue, format, {}, nonce)
             /\ IF digest.err # ""
                THEN ret' = Threw("Signer.Sign", digest.err, <<"hashPlaintext">>)
                ELSE ret' = Outcome("Signer.Sign", e.kind, e.err, e.value, FALSE, digest.v,
                                    <<"hashPlaintext", "executeSign">> \o e.steps)
    /\ hist' = Finalized(hist, ctx)
    /\ ctx' = after

\* Signer.Sign emptying the buffer it signed
SignerSign_Resets == SignerSignLeaving([ctx EXCEPT !.plaintext = <<>>])

SignerSign == SignerSignLeaving(ctx)

\* the script takes what a call on its context returned or threw and goes on
\* to its next statement; a Go panic ends the process
ScriptContinues ==
    /\ req.op \in SessionOps \ {"session"}
    /\ ret.kind # "panic"
    /\ req' = Session
    /\ ret' = NoRet
    /\ UNCHANGED <<ctx, hist>>

Next ==
    \/ CryptoSign
    \/ CryptoVerify
    \/ CryptoSignString
    \/ CryptoVerifyString
    \/ CreateVerify
    \/ CreateSign
    \/ VerifierUpdate
    \/ VerifierVerify
    \/ SignerUpdate
    \/ SignerSign
    \/ ScriptContinues

Spec == Init /\ [][Next]_vars

----------------------------------------------------------------------------
(* Update calls from two goroutines on one context.  Update holds no lock:  *)
(* the statement plaintext = append(plaintext, addition...) reads the slice *)
(* and later writes it, and another call may run between the two.  Here req *)
(* and ret hold each goroutine's call and outcome.                          *)

Goroutines == {"g1", "g2"}
RaceChunks == {Bytes(<<65>>), Bytes(<<66>>), Bytes(<<65, 66>>), Str(<<"4", "2">>), Str(<<"-">>)}
RaceFormats == {"", "hex"}
RaceBuffers == {<<>>, <<67>>}

\* a call of Update: its arguments, where it stands, its locals
UpdateCall(value, format, pc, addition, loaded, overlapped) ==
    [op |-> "Update", value |-> value, format |-> format, pc |-> pc,
     addition |-> addition, loaded |-> loaded, overlapped |-> overlapped]
InProgress(call) == call.pc \in {"load", "store"}

InitRace ==
    /\ \E calls \in [Goroutines -> {UpdateCall(x, f, "call", <<>>, <<>>, FALSE) :
                                       x \in RaceChunks, f \in RaceFormats}] : req = calls
    /\ \E b \in RaceBuffers, k \in {"Signer", "Verifier"} :
         ctx = [NewContext(k, "sha256", "sha256", {}) EXCEPT !.plaintext = b]
    /\ ret = [g \in Goroutines |-> NoRet]
    /\ hist = [NoHist EXCEPT !.finalized = <<Len(ctx.plaintext)>>]

\* addition, err := decodeBinary(additionEncoded, format); throw on an error
UpdateDecode(g) ==
    /\ req[g].pc = "call"
    /\ \E addition \in {decodeBinary(req[g].value, req[g].format)} :
         \E overlapped \in {\E o \in Goroutines \ {g} : InProgress(req[o])} :
           IF addition.err # ""
           THEN /\ req' = [req EXCEPT ![g].pc = "done", ![g].overlapped = overlapped]
                /\ ret' = [ret EXCEPT ![g] = Threw("Update", addition.err, <<"decodeBinary">>)]
                /\ hist' = hist
           ELSE /\ req' = [req EXCEPT ![g].pc = "load", ![g].addition = addition.v,
                                      ![g].overlapped = overlapped]
                /\ ret' = ret
                /\ hist' = [hist EXCEPT !.chunks = Append(hist.chunks, addition.v)]
    /\ ctx' = ctx

\* the read of plaintext held back while another call is about to write
UpdateLoad_Locked(g) ==
    /\ req[g].pc = "load"
    /\ \A o \in Goroutines \ {g} : req[o].pc # "store"
    /\ req' = [req EXCEPT ![g].pc = "store", ![g].loaded = ctx.plaintext]
    /\ UNCHANGED <<ctx, ret, hist>>

\* the read of plaintext in append(plaintext, addition...)
UpdateLoad(g) ==
    /\ req[g].pc = "load"
    /\ req' = [req EXCEPT ![g].pc = "store", ![g].loaded = ctx.plaintext]
    /\ UNCHANGED <<ctx, ret, hist>>

\* what the write can leave when another call wrote since the read: this
\* call's result, or, the two calls having copied into one backing array,
\* this call's result with bytes of the other's
Racing(mine, loaded, present) ==
    {m \in [1..Len(mine) -> {mine[i] : i \in 1..Len(mine)} \cup {present[i] : i \in 1..Len(present)}] :
        \A i \in 1..Len(mine) :
            \/ m[i] = mine[i]
            \/ i > Len(loaded) /\ i <= Len(present) /\ m[i] = present[i]}

\* the write of plaintext
UpdateStore(g) ==
    /\ req[g].pc = "store"
    /\ \E mine \in {appendBytes(req[g].loaded, req[g].addition)} :
         \E plaintext \in IF ctx.plaintext = req[g].loaded THEN {mine}
                          ELSE Racing(mine, req[g].loaded, ctx.plaintext) :
             ctx' = [ctx EXCEPT !.plaintext = plaintext]
    /\ req' = [req EXCEPT ![g].pc = "done"]
    /\ ret' = [ret EXCEPT ![g] = Returned("Update", NoValue, <<"decodeBinary", "append">>)]
    /\ hist' = hist

NextRace ==
    \E g \in Goroutines :
        \/ UpdateDecode(g)
        \/ UpdateLoad(g)
        \/ UpdateStore(g)

SpecRace == InitRace /\ [][NextRace]_vars

----------------------------------------------------------------------------
(* The certificate and key parser, package x509.  A PEM text is a sequence  *)
(* of lines: other text, the BEGIN and END lines of a block, and between    *)
(* them the block's payload, taken here as the DER value it encodes.        *)

MaxNames == 3

\* attribute types, as dotted strings
oidCommonName == "2.5.4.3"
oidOrganization == "2.5.4.10"
oidOrganizationalUnit == "2.5.4.11"
oidCountry == "2.5.4.6"
oidProvince == "2.5.4.8"
oidLocality == "2.5.4.7"
oidStreetAddress == "2.5.4.9"
oidPostalCode == "2.5.4.17"
oidDomainComponent == "0.9.2342.19200300.100.1.25"

\* a DER value: a certificate, a SubjectPublicKeyInfo, a private key, or
\* bytes that parse as none of them
Der(kind, subject, issuer, altNames, algorithm, id) ==
    [kind |-> kind, subject |-> subject, issuer |-> issuer, altNames |-> altNames,
     algorithm |-> algorithm, id |-> id]
NoDer == Der("none", <<>>, <<>>, <<>>, "", 0)
Garbage == Der("garbage", <<>>, <<>>, <<>>, "", 0)

\* a line of PEM text; a payload line carries the password it was encrypted
\* with in the manner of its Proc-Type and DEK-Info headers, "" for none
PemLine(t, label, der, password) == [t |-> t, label |-> label, der |-> der, password |-> password]
TextLine == PemLine("text", "bad-certificate", NoDer, "")
BeginLine(label) == PemLine("begin", label, NoDer, "")
EndLine(label) == PemLine("end", label, NoDer, "")
DataLine(der, password) == PemLine("data", "", der, password)
PemBlock(label, der, password) == <<BeginLine(label), DataLine(der, password), EndLine(label)>>
Pem(lines) == [type |-> "pem", v |-> lines]

\* pem.Decode: the first block of the text, or none
IsBlockAt(lines, i) ==
    /\ i + 2 <= Len(lines)
    /\ lines[i].t = "begin"
    /\ lines[i + 1].t = "data"
    /\ lines[i + 2] = EndLine(lines[i].label)
\* pem.Decode taking a block whose END line is missing
pemDecode_NoEndLine(lines) ==
    LET starts == {i \in 1..Len(lines) - 1 : lines[i].t = "begin" /\ lines[i + 1].t = "data"}
    IN  IF starts = {} THEN Fail("PemDecodeError")
        ELSE LET i == CHOOSE j \in starts : \A k \in starts : j <= k
             IN  Ok([label |-> lines[i].label, der |-> lines[i + 1].der,
                     password |-> lines[i + 1].password])

pemDecode(lines) ==
    LET starts == {i \in 1..Len(lines) : IsBlockAt(lines, i)}
    IN  IF starts = {} THEN Fail("PemDecodeError")
        ELSE LET i == CHOOSE j \in starts : \A k \in starts : j <= k
             IN  Ok([label |-> lines[i].label, der |-> lines[i + 1].der,
                     password |-> lines[i + 1].password])

\* the fixed dispatch table from algorithm identifier to key algorithm
dispatchAlgorithm(oid) ==
    CASE oid = "rsaEncryption" -> Ok("RSA")
      [] oid = "id-dsa" -> Ok("DSA")
      [] oid = "id-ecPublicKey" -> Ok("ECDSA")
      [] OTHER -> Fail("UnsupportedAlgorithm")

\* an entry of the generic names list
RDN(type, value) == [type |-> type, value |-> value]
\* a decoded distinguished name; a single-valued field with no entry is NoValue
Name(commonName, country, organizationName, organizationalUnitName, stateOrProvinceName, localityName, streetAddress, postalCode, names) ==
    [commonName |-> commonName, country |-> country, organizationName |-> organizationName,
     organizationalUnitName |-> organizationalUnitName,
     stateOrProvinceName |-> stateOrProvinceName, localityName |-> localityName,
     streetAddress |-> streetAddress, postalCode |-> postalCode, names |-> names]
EmptyName == Name(NoValue, NoValue, NoValue, <<>>, NoValue, NoValue, NoValue, NoValue, <<>>)

\* the decoder keeping the first value of a single-valued field
addAttribute_KeepsFirst(name, a) ==
    LET listed == [name EXCEPT !.names = Append(@, RDN(a.type, a.value))]
        keep(old, new) == IF old = NoValue THEN Str(new) ELSE old
    IN  CASE a.type = oidCommonName -> [listed EXCEPT !.commonName = keep(@, a.value)]
          [] a.type = oidCountry -> [listed EXCEPT !.country = keep(@, a.value)]
          [] a.type = oidOrganization -> [listed EXCEPT !.organizationName = keep(@, a.value)]
          [] a.type = oidOrganizationalUnit ->
               [listed EXCEPT !.organizationalUnitName = Append(@, a.value)]
          [] a.type = oidProvince -> [listed EXCEPT !.stateOrProvinceName = keep(@, a.value)]
          [] a.type = oidLocality -> [listed EXCEPT !.localityName = keep(@, a.value)]
          [] a.type = oidStreetAddress -> [listed EXCEPT !.streetAddress = keep(@, a.value)]
          [] a.type = oidPostalCode -> [listed EXCEPT !.postalCode = keep(@, a.value)]
          [] OTHER -> listed

\* one attribute taken into the name decoded so far
addAttribute(name, a) ==
    LET listed == [name EXCEPT !.names = Append(@, RDN(a.type, a.value))]
    IN  CASE a.type = oidCommonName -> [listed EXCEPT !.commonName = Str(a.value)]
          [] a.type = oidCountry -> [listed EXCEPT !.country = Str(a.value)]
          [] a.type = oidOrganization -> [listed EXCEPT !.organizationName = Str(a.value)]
          [] a.type = oidOrganizationalUnit ->
               [listed EXCEPT !.organizationalUnitName = Append(@, a.value)]
          [] a.type = oidProvince -> [listed EXCEPT !.stateOrProvinceName = Str(a.value)]
          [] a.type = oidLocality -> [listed EXCEPT !.localityName = Str(a.value)]
          [] a.type = oidStreetAddress -> [listed EXCEPT !.streetAddress = Str(a.value)]
          [] a.type = oidPostalCode -> [listed EXCEPT !.postalCode = Str(a.value)]
          [] OTHER -> listed

\* the name decoder: the attributes of an RDN sequence in encoding order
RECURSIVE decodeAttributes(_, _)
decodeAttributes(attributes, name) ==
    IF attributes = <<>> THEN name
    ELSE decodeAttributes(Tail(attributes), addAttribute(name, Head(attributes)))
decodeName(rdnSequence) == decodeAttributes(Flatten(rdnSequence), EmptyName)

Certificate(subject, issuer, altNames, publicKey) ==
    [type |-> "certificate", subject |-> subject, issuer |-> issuer, altNames |-> altNames,
     publicKey |-> publicKey]

\* what a call of the parser comes to: the error kind or the value, and the
\* stages it went through
Parsed(err, v, steps) == [err |-> err, v |-> v, steps |-> steps]

parseCertificate(pem) ==
    LET block == pemDecode(pem.v)
    IN  IF block.err # "" THEN Parsed(block.err, NoValue, <<"pem.Decode">>)
        ELSE IF block.v.der.kind # "certificate"
        THEN Parsed("CertificateParseError", NoValue, <<"pem.Decode", "x509.ParseCertificate">>)
        ELSE LET algorithm == dispatchAlgorithm(block.v.der.algorithm)
             IN  IF algorithm.err # ""
                 THEN Parsed(algorithm.err, NoValue,
                             <<"pem.Decode", "x509.ParseCertificate", "makePublicKey">>)
                 ELSE Parsed("", Certificate(decodeName(block.v.der.subject),
                                             decodeName(block.v.der.issuer),
                                             block.v.der.altNames,
                                             PublicKey(algorithm.v, block.v.der.id)),
                             <<"pem.Decode", "x509.ParseCertificate", "makePublicKey">>)

getSubject(pem) ==
    LET c == parseCertificate(pem)
    IN  IF c.err # "" THEN c ELSE Parsed("", c.v.subject, c.steps)

\* getIssuer returning the subject
getIssuer_ReturnsSubject(pem) ==
    LET c == parseCertificate(pem)
    IN  IF c.err # "" THEN c ELSE Parsed("", c.v.subject, c.steps)

getIssuer(pem) ==
    LET c == parseCertificate(pem)
    IN  IF c.err # "" THEN c ELSE Parsed("", c.v.issuer, c.steps)

getAltNames(pem) ==
    LET c == parseCertificate(pem)
    IN  IF c.err # "" THEN c ELSE Parsed("", [type |-> "list", v |-> c.v.altNames], c.steps)

parsePublicKey(pem) ==
    LET block == pemDecode(pem.v)
    IN  IF block.err # "" THEN Parsed(block.err, NoValue, <<"pem.Decode">>)
        ELSE IF block.v.der.kind # "spki" \/ dispatchAlgorithm(block.v.der.algorithm).err # ""
        THEN Parsed("KeyParseError", NoValue, <<"pem.Decode", "x509.ParsePKIXPublicKey">>)
        ELSE Parsed("", PublicKey(dispatchAlgorithm(block.v.der.algorithm).v, block.v.der.id),
                    <<"pem.Decode", "x509.ParsePKIXPublicKey">>)

parsePrivateKey(pem, password) ==
    LET block == pemDecode(pem.v)
    IN  IF block.err # "" THEN Parsed(block.err, NoValue, <<"pem.Decode">>)
        ELSE IF block.v.password # "" /\ password = ""
        THEN Parsed("PasswordRequired", NoValue, <<"pem.Decode">>)
        ELSE IF block.v.password # "" /\ password # block.v.password
        THEN Parsed("DecryptionError", NoValue, <<"pem.Decode", "x509.DecryptPEMBlock">>)
        ELSE LET steps == IF block.v.password # ""
                          THEN <<"pem.Decode", "x509.DecryptPEMBlock", "parseKey">>
                          ELSE <<"pem.Decode", "parseKey">>
             IN  IF block.v.der.kind # "privateKey"
                    \/ dispatchAlgorithm(block.v.der.algorithm).err # ""
                 THEN Parsed("KeyParseError", NoValue, steps)
                 ELSE Parsed("", PrivateKey(dispatchAlgorithm(block.v.der.algorithm).v,
                                            block.v.der.id), steps)

\* the texts scripts pass: attribute lists of up to MaxNames attributes, each
\* attribute an RDN of its own or the first two in one RDN
AttributeTypes == {oidCommonName, oidOrganization, oidOrganizationalUnit, oidDomainComponent}
AttributeValues == {"", "zz"}
Attributes == {RDN(t, x) : t \in AttributeTypes, x \in AttributeValues}
Singly(attributes) == [i \in 1..Len(attributes) |-> <<attributes[i]>>]
RdnSequences ==
    {Singly(l) : l \in SeqsUpTo(Attributes, MaxNames)}
    \cup {<<SubSeq(l, 1, 2)>> \o Singly(SubSeq(l, 3, Len(l))) :
             l \in {m \in SeqsUpTo(Attributes, MaxNames) : Len(m) >= 2}}
fixtureName ==
    <<<<RDN(oidCountry, "ZZ")>>, <<RDN(oidProvince, "Kopuncezis Krais")>>,
      <<RDN(oidLocality, "Ashtinok")>>, <<RDN(oidStreetAddress, "221B Baker Street")>>,
      <<RDN(oidPostalCode, "99999")>>, <<RDN(oidOrganization, "Exumbran Convention")>>,
      <<RDN(oidOrganizationalUnit, "Exumbran Council")>>,
      <<RDN(oidOrganizationalUnit, "Exumbran Janitorial Service")>>,
      <<RDN(oidCommonName, "excouncil.zz")>>>>
fixtureAltNames ==
    <<"council.exumbran.zz", "about.excouncil.zz", "inquiries@excouncil.zz",
      "press@excouncil.zz", "192.0.2.0", "192.0.2.25", "http://press.excouncil.zz",
      "http://learning.excouncil.zz/index.html">>
KeyOids == {"rsaEncryption", "id-dsa", "id-ecPublicKey", "id-Ed25519"}
CertificateDers ==
    {Der("certificate", n, fixtureName, fixtureAltNames, "rsaEncryption", 1) :
        n \in RdnSequences \cup {fixtureName}}
    \cup {Der("certificate", fixtureName, n, a, o, 1) :
             n \in {l \in RdnSequences : Len(l) = 1}, a \in {<<>>, fixtureAltNames},
             o \in KeyOids}
KeyDers == {Der(k, <<>>, <<>>, <<>>, o, 1) : k \in {"spki", "privateKey"}, o \in KeyOids}
Labels == {"CERTIFICATE", "PUBLIC KEY", "RSA PRIVATE KEY"}
\* one block alone; text around a block; text and broken blocks; two blocks
PemTexts ==
    {Pem(PemBlock("CERTIFICATE", d, "")) : d \in CertificateDers}
    \cup {Pem(PemBlock(l, d, pw)) : d \in KeyDers \cup {Garbage}, l \in Labels, pw \in {"", "1234"}}
    \cup {Pem(pre \o PemBlock("CERTIFICATE", d, "") \o post) :
             d \in KeyDers \cup {Garbage, Der("certificate", fixtureName, fixtureName,
                                              fixtureAltNames, "id-dsa", 1)},
             pre \in {<<>>, <<TextLine>>},
             post \in {<<>>, <<TextLine>>, <<EndLine("CERTIFICATE")>>}}
    \cup {Pem(<<TextLine>>), Pem(<<>>), Pem(<<BeginLine("CERTIFICATE"), EndLine("CERTIFICATE")>>),
          Pem(<<BeginLine("PUBLIC KEY"), TextLine, EndLine("PUBLIC KEY")>>)}
    \cup UNION {{Pem(<<BeginLine("CERTIFICATE"), DataLine(d, "")>>),
                 Pem(<<BeginLine("CERTIFICATE"), DataLine(d, ""), EndLine("PUBLIC KEY")>>),
                 Pem(<<DataLine(d, ""), EndLine("CERTIFICATE")>>),
                 Pem(PemBlock("PUBLIC KEY", Garbage, "") \o PemBlock("PUBLIC KEY", d, ""))} :
                d \in KeyDers \cup {Garbage}}
Passwords == {"", "1234", "0000"}
X509Ops == {"parse", "getSubject", "getIssuer", "getAltNames", "parsePublicKey"}

X509Request(op, pem, password) ==
    Request(op, NoKey, "", pem, NoValue, "", {<<"password", password>>}, 0)
Result(op, r) ==
    IF r.err # "" THEN Threw(op, r.err, r.steps) ELSE Returned(op, r.v, r.steps)

IsX509Request(r) ==
    \/ \E op \in X509Ops, pem \in PemTexts : r = X509Request(op, pem, "")
    \/ \E pem \in PemTexts, password \in Passwords :
         r = X509Request("parsePrivateKey", pem, password)

InitX509 ==
    /\ IsX509Request(req)
    /\ ctx = NoCtx
    /\ ret = NoRet
    /\ hist = NoHist

X509Parse ==
    /\ req.op = "parse"
    /\ ret = NoRet
    /\ ret' = Result(req.op, parseCertificate(req.value))
    /\ UNCHANGED <<req, ctx, hist>>

X509GetSubject ==
    /\ req.op = "getSubject"
    /\ ret = NoRet
    /\ ret' = Result(req.op, getSubject(req.value))
    /\ UNCHANGED <<req, ctx, hist>>

X509GetIssuer ==
    /\ req.op = "getIssuer"
    /\ ret = NoRet
    /\ ret' = Result(req.op, getIssuer(req.value))
    /\ UNCHANGED <<req, ctx, hist>>

X509GetAltNames ==
    /\ req.op = "getAltNames"
    /\ ret = NoRet
    /\ ret' = Result(req.op, getAltNames(req.value))
    /\ UNCHANGED <<req, ctx, hist>>

X509ParsePublicKey ==
    /\ req.op = "parsePublicKey"
    /\ ret = NoRet
    /\ ret' = Result(req.op, parsePublicKey(req.value))
    /\ UNCHANGED <<req, ctx, hist>>

X509ParsePrivateKey ==
    /\ req.op = "parsePrivateKey"
    /\ ret = NoRet
    /\ ret' = Result(req.op, parsePrivateKey(req.value, Lookup(req.options, "password")))
    /\ UNCHANGED <<req, ctx, hist>>

NextX509 ==
    \/ X509Parse
    \/ X509GetSubject
    \/ X509GetIssuer
    \/ X509GetAltNames
    \/ X509ParsePublicKey
    \/ X509ParsePrivateKey

SpecX509 == InitX509 /\ [][NextX509]_vars

----------------------------------------------------------------------------
(* Claims about the codec *)

HexOk(x) == x.type = "string" /\ hexDecodeString(x.v).err = ""
Base64Ok(x) == x.type = "string" /\ base64DecodeString(x.v).err = ""
Detected == ret.op = "decodeBinary" /\ req.format = ""

\* C9: decoding with an empty format returns the result of the first of raw
\* bytes, hex, base64 that succeeds; raw succeeds only for a byte sequence;
\* the call fails with "unrecognized binary encoding" exactly when all three fail.
C9_DetectOrder ==
    Detected =>
        LET x == req.value
        IN  /\ (decodeBytes(x).err = "") <=> (x.type = "bytes")
            /\ x.type = "bytes" => ret.kind = "ok" /\ ret.value = Bytes(x.v)
            /\ x.type # "bytes" /\ HexOk(x) =>
                   ret.kind = "ok" /\ ret.value = Bytes(hexDecodeString(x.v).v)
            /\ x.type # "bytes" /\ ~HexOk(x) /\ Base64Ok(x) =>
                   ret.kind = "ok" /\ ret.value = Bytes(base64DecodeString(x.v).v)
            /\ (ret.kind = "error") <=> (x.type # "bytes" /\ ~HexOk(x) /\ ~Base64Ok(x))
            /\ ret.kind = "error" => ret.err = "unrecognized binary encoding"

\* a string that is not hex was detected as base64
C9_Witness ==
    /\ Detected
    /\ req.value.type = "string"
    /\ ~HexOk(req.value)
    /\ Base64Ok(req.value)
    /\ ret.kind = "ok"
    /\ Len(ret.value.v) > 0

----------------------------------------------------------------------------
(* Claims about the chunked contexts *)

Finals == {"Signer.Sign", "Verifier.Verify"}
Updates == {"Signer.Update", "Verifier.Update"}
Contains(steps, step) == \E i \in 1..Len(steps) : steps[i] = step
Digested == Contains(ret.steps, "executeSign") \/ Contains(ret.steps, "executeVerify")

\* C1: a terminal call (Signer.Sign, Verifier.Verify) leaves the context as it
\* was; an Update after a terminal call extends the same buffer; and every
\* terminal call digests all the chunks appended since creation.
C1_FinalizeKeepsBuffer ==
    [][/\ ret'.op \in Finals => ctx' = ctx
       /\ ret'.op \in Finals /\ (Contains(ret'.steps, "executeSign")
                                 \/ Contains(ret'.steps, "executeVerify")) =>
              ret'.digest = hashPlaintext(ctx.functionEncoded, Flatten(hist.chunks)).v
       /\ ret'.op \in Updates /\ ret'.kind = "ok" /\ hist.finalized # <<>> =>
              ctx'.plaintext = ctx.plaintext \o decodeBinary(req'.value, req'.format).v
      ]_vars

\* a second terminal call, after an Update that followed a first one on a
\* shorter, non-empty buffer, digested both chunks
C1_Witness ==
    /\ ret.op \in Finals
    /\ Digested
    /\ hist.finalized # <<>>
    /\ Len(hist.chunks) >= 2
    /\ hist.finalized[1] = Len(hist.chunks[1])
    /\ ret.digest = hashPlaintext(ctx.functionEncoded, Flatten(hist.chunks)).v

\* C2: however the message was split into chunks, the buffer is the one a
\* single Update with the whole message leaves in a new context, and the
\* signature is the one that run produces; it verifies against the message.
WholeMessage == Bytes(Flatten(hist.chunks))
OneUpdate == appendBytes(<<>>, decodeBinary(WholeMessage, "").v)
C2_IncrementalEquivalence ==
    /\ ctx.kind # "none" => ctx.plaintext = OneUpdate
    /\ ret.op = "Signer.Sign" /\ ret.kind = "ok" =>
         /\ ret.value = executeSign(req.key, ctx.function,
                                    hashPlaintext(ctx.functionEncoded, OneUpdate).v,
                                    req.format, ctx.options, req.nonce).value
         /\ \A k \in ValidPublicKeys :
              k.Algorithm = req.key.Algorithm /\ k.Key.id = req.key.Key.id =>
                  Verify(k, ctx.functionEncoded, WholeMessage, ret.value, ctx.options).verified

\* a message fed as two chunks was signed
C2_Witness ==
    /\ ret.op = "Signer.Sign"
    /\ ret.kind = "ok"
    /\ Len(hist.chunks) >= 2
    /\ ctx.plaintext = <<65, 66>>

----------------------------------------------------------------------------
(* Claims about the signature engine *)

MatchingPrivateKey(k) == PrivateKey(k.Algorithm, k.Key.id)
Executed == Contains(ret.steps, "executeSign") \/ Contains(ret.steps, "executeVerify")
\* the digest name and options a call worked with: its own or its context's
UsedFunction == IF ret.op \in Finals THEN ctx.functionEncoded ELSE req.function
UsedOptions == IF ret.op \in Finals THEN ctx.options ELSE req.options
UsedType == Lookup(UsedOptions, "type")
SignedMessages == {<<65>>, <<66>>}

\* C3: a signature made by Sign with the matching private key, the same digest
\* name and the same options verifies true when Verify is given the signed
\* message and false when it is given another one, for RSA with either
\* padding, DSA and ECDSA.
C3_SignThenVerify ==
    ret.op = "Verify" /\ req.key \in ValidPublicKeys /\ req.function \in SupportedDigests
        /\ decodePlaintext(req.value).err = "" =>
        \A m \in SignedMessages, n \in Nonces :
            Bind(Sign(MatchingPrivateKey(req.key), req.function, Bytes(m), "", req.options, n),
                 LAMBDA s :
                    s.kind = "ok" /\ req.signature = s.value =>
                        /\ ret.kind = "ok"
                        /\ ret.verified <=> (m = decodePlaintext(req.value).v))

\* a PSS signature verified true
C3_Witness ==
    /\ ret.op = "Verify"
    /\ req.key.Algorithm = "RSA"
    /\ Lookup(req.options, "type") = pss
    /\ ret.kind = "ok"
    /\ ret.verified
    /\ \E n \in Nonces :
         req.signature = Sign(MatchingPrivateKey(req.key), req.function, req.value, "",
                              req.options, n).value

\* the signature as produced from the values verification reads from it:
\* for DSA and ECDSA the DER encoding of the pair (r, s) it carries
Carried(k, signature) ==
    IF k.Algorithm = "RSA" \/ asn1Unmarshal(signature).err # "" THEN signature
    ELSE asn1Marshal(asn1Unmarshal(signature).v)

\* the signatures valid for public key k over the digest under the scheme
\* options select
ValidSignatures(k, function, digest, options) ==
    {executeSign(MatchingPrivateKey(k), function, digest, "", o, n).sig :
        o \in {x \in SignerOptionSets : Lookup(x, "type") = Lookup(options, "type")},
        n \in Nonces}
WellFormed(k, signature) == k.Algorithm = "RSA" \/ asn1Unmarshal(signature).err = ""

\* C4: verify, one-shot or chunked, given a well-formed signature returns a
\* verdict and no error; the verdict is true only for a signature valid for
\* the key over exactly the digest of the message (for DSA and ECDSA, only
\* when the pair (r, s) it carries is one).
C4_MismatchIsFalse ==
    ret.op \in {"Verify", "Verifier.Verify"} /\ Executed /\ req.key \in ValidPublicKeys
        /\ UsedType \in {<<>>, pss} =>
        Bind(decodeSignature(req.signature).v, LAMBDA signature :
            WellFormed(req.key, signature) =>
                /\ ret.kind = "ok"
                /\ ret.err = ""
                /\ ret.verified =>
                       Carried(req.key, signature)
                           \in ValidSignatures(req.key, UsedFunction, ret.digest, UsedOptions))

\* a DSA signature made with another key pair was found false by a Verifier
C4_Witness ==
    /\ ret.op = "Verifier.Verify"
    /\ req.key \in ValidPublicKeys
    /\ req.key.Algorithm = "DSA"
    /\ ret.kind = "ok"
    /\ ~ret.verified
    /\ \E i \in KeyIds, n \in Nonces :
         /\ i # req.key.Key.id
         /\ req.signature = Sign(PrivateKey("DSA", i), ctx.functionEncoded,
                                 Bytes(ctx.plaintext), "", {}, n).value

RsaCall ==
    /\ ret.op \in {"Sign", "Verify", "Signer.Sign", "Verifier.Verify"}
    /\ Executed
    /\ req.key \in ValidPrivateKeys \cup ValidPublicKeys
    /\ req.key.Algorithm = "RSA"
UsedPKCS == Contains(ret.steps, "rsa.SignPKCS1v15") \/ Contains(ret.steps, "rsa.VerifyPKCS1v15")
UsedPSS == Contains(ret.steps, "rsa.SignPSS") \/ Contains(ret.steps, "rsa.VerifyPSS")

\* C5 as stated: for an RSA key, sign and verify select PKCS#1 v1.5 when
\* options.type is unset or "pkcs1v15", and PSS when it is "pss".
C5_Original ==
    RsaCall =>
        /\ UsedType \in {<<>>, pkcs1v15} => UsedPKCS /\ ~UsedPSS
        /\ UsedType = pss => UsedPSS /\ ~UsedPKCS

\* C5 as amended: for an RSA key, sign and verify select PKCS#1 v1.5 when
\* options.type is unset or empty and PSS when it is "pss"; "pkcs1v15" is not
\* recognised: the call fails with "unsupported type" and runs neither scheme.
C5_PaddingSelection ==
    RsaCall =>
        /\ UsedType = <<>> => UsedPKCS /\ ~UsedPSS
        /\ UsedType = pss => UsedPSS /\ ~UsedPKCS
        /\ UsedType = pkcs1v15 =>
               ret.kind = "error" /\ ret.err = "unsupported type" /\ ~UsedPKCS /\ ~UsedPSS

\* Sign with type "pkcs1v15" failed
C5_Witness ==
    /\ RsaCall
    /\ ret.op = "Sign"
    /\ UsedType = pkcs1v15
    /\ ret.err = "unsupported type"

\* C6: for an RSA key, an options.type other than the recognised ones makes
\* sign fail with "unsupported type" and return no signature, and makes
\* verify fail the same way instead of returning a verdict.
C6_UnsupportedPadding ==
    ret.op \in {"Sign", "Verify", "Signer.Sign", "Verifier.Verify"}
        /\ req.key \in ValidPrivateKeys \cup ValidPublicKeys /\ req.key.Algorithm = "RSA"
        /\ UsedType \notin {<<>>, pss} =>
        /\ ret.kind = "error"
        /\ ret.value = NoValue
        /\ ~ret.verified
        /\ ~UsedPKCS /\ ~UsedPSS
        /\ Executed => ret.err = "unsupported type"

\* a Verifier created with type "oaep" failed to verify
C6_Witness ==
    /\ ret.op = "Verifier.Verify"
    /\ req.key \in ValidPublicKeys
    /\ req.key.Algorithm = "RSA"
    /\ UsedType = oaep
    /\ ret.kind = "error"
    /\ ret.err = "unsupported type"

InvalidKeyMessages ==
    {"invalid private key", "invalid DSA private key", "invalid ECDSA private key",
     "invalid RSA private key", "invalid public key", "invalid DSA public key",
     "invalid ECDSA public key"}
TagUnknown(k) == k.Algorithm \notin {"RSA", "DSA", "ECDSA"}
PayloadMismatch(k, want) == ~TagUnknown(k) /\ k.Key.type # want[k.Algorithm]
PrivatePayload == [RSA |-> "*rsa.PrivateKey", DSA |-> "*dsa.PrivateKey", ECDSA |-> "*ecdsa.PrivateKey"]
PublicPayload == [RSA |-> "*rsa.PublicKey", DSA |-> "*dsa.PublicKey", ECDSA |-> "*ecdsa.PublicKey"]

\* C7 as stated: an unrecognised digest name makes Sign and Verify fail with
\* "unsupported hash function" with the digest-name check as their first step,
\* and makes CreateSign / CreateVerify fail without creating a context.
C7_DigestCheckedFirst ==
    /\ ret.op \in {"Sign", "Verify"} /\ req.function \notin SupportedDigests =>
         /\ ret.kind = "error"
         /\ ret.err = "unsupported hash function"
         /\ ret.steps[1] = "decodeFunction"
    /\ ret.op \in {"CreateSign", "CreateVerify"} /\ req.function \notin SupportedDigests =>
         /\ ret.kind = "error"
         /\ ret.err = "unsupported hash function"
         /\ ctx = NoCtx

\* C8: Sign with a private key, and Verify with a public key, whose algorithm
\* tag is not RSA, DSA or ECDSA or whose payload is not of the tag's type
\* fails with an invalid-key error after the validation step alone.
C8_InvalidKeyRejected ==
    /\ ret.op = "Sign" /\ (TagUnknown(req.key) \/ PayloadMismatch(req.key, PrivatePayload)) =>
         /\ ret.kind = "error"
         /\ ret.err \in InvalidKeyMessages
         /\ ret.value = NoValue
         /\ ret.steps = <<"validatePrivateKey">>
    /\ ret.op = "Verify" /\ (TagUnknown(req.key) \/ PayloadMismatch(req.key, PublicPayload)) =>
         /\ ret.kind = "error"
         /\ ret.err \in InvalidKeyMessages
         /\ ~ret.verified
         /\ ret.steps = <<"validatePublicKey">>

\* Sign was refused an RSA-tagged key carrying a DSA private key
C8_Witness ==
    /\ ret.op = "Sign"
    /\ req.key.Algorithm = "RSA"
    /\ req.key.Key.type = "*dsa.PrivateKey"
    /\ req.function \in SupportedDigests
    /\ ret.kind = "error"
    /\ ret.err = "invalid RSA private key"

----------------------------------------------------------------------------
(* Further claims about the codec *)

NamedFormats == {"binary", "hex", "base64"}
RoundTrip == ret.op = "decodeBinary" /\ hist.chunks # <<>>

\* C11: decoding what encodeBinary returned for a byte sequence, with the
\* same format "binary", "hex" or "base64", gives back the byte sequence,
\* the empty one included.
C11_RoundTrip ==
    RoundTrip /\ req.format \in NamedFormats =>
        /\ ret.kind = "ok"
        /\ ret.value = Bytes(hist.chunks[1])

\* three bytes went through base64 text and came back
C11_Witness ==
    /\ RoundTrip
    /\ req.format = "base64"
    /\ req.value.type = "string"
    /\ Len(req.value.v) = 4
    /\ Len(hist.chunks[1]) = 3
    /\ ret.value = Bytes(hist.chunks[1])

\* C12: decoding with format "binary", "hex" or "base64" succeeds exactly when
\* the named decoder accepts the value and returns its bytes, with no
\* fallback to another decoder; any other non-empty format fails with
\* "unsupported binary encoding" whatever the value.
C12_NamedDecoderOnly ==
    ret.op = "decodeBinary" /\ req.format # "" =>
        LET x == req.value
            accepted == CASE req.format = "binary" -> x.type = "bytes"
                          [] req.format = "hex" -> HexOk(x)
                          [] req.format = "base64" -> Base64Ok(x)
                          [] OTHER -> FALSE
            bytes == CASE req.format = "binary" -> x.v
                       [] req.format = "hex" -> hexDecodeString(x.v).v
                       [] req.format = "base64" -> base64DecodeString(x.v).v
        IN  /\ (ret.kind = "ok") <=> accepted
            /\ ret.kind # "ok" => ret.kind = "error" /\ ret.value = NoValue
            /\ accepted => ret.value = Bytes(bytes)
            /\ req.format \notin NamedFormats => ret.err = "unsupported binary encoding"
            /\ req.format \in NamedFormats => ret.err # "unsupported binary encoding"

\* a byte sequence was refused under "hex", text that is base64 but not hex too
C12_Witness ==
    /\ ret.op = "decodeBinary"
    /\ req.format = "hex"
    /\ ret.kind = "error"
    /\ \/ req.value.type = "bytes"
       \/ Base64Ok(req.value) /\ req.value.v # <<>>

\* C13: encodeBinary returns the bytes unchanged for "" and "binary", the
\* lower-case hex text for "hex" and the padded base64 text for "base64"
\* (text of the expected length that decodes to the bytes), and fails with
\* "unsupported binary encoding" for every other format.
C13_Encode ==
    ret.op = "encodeBinary" =>
        LET b == req.value.v
        IN  /\ req.format \in {"", "binary"} => ret.kind = "ok" /\ ret.value = Bytes(b)
            /\ req.format = "hex" =>
                 /\ ret.kind = "ok"
                 /\ ret.value.type = "string"
                 /\ Len(ret.value.v) = 2 * Len(b)
                 /\ \A i \in 1..Len(ret.value.v) : IndexOf(HexLower, ret.value.v[i]) > 0
                 /\ hexDecodeString(ret.value.v) = Ok(b)
            /\ req.format = "base64" =>
                 /\ ret.kind = "ok"
                 /\ ret.value.type = "string"
                 /\ Len(ret.value.v) = 4 * ((Len(b) + 2) \div 3)
                 /\ base64DecodeString(ret.value.v) = Ok(b)
            /\ req.format \notin {"", "binary", "hex", "base64"} =>
                 /\ ret.kind = "error"
                 /\ ret.err = "unsupported binary encoding"
                 /\ ret.value = NoValue

\* bytes were returned unchanged for the empty format
C13_Witness ==
    /\ ret.op = "encodeBinary"
    /\ req.format = ""
    /\ Len(req.value.v) > 0
    /\ ret.kind = "ok"
    /\ ret.value = req.value

----------------------------------------------------------------------------
(* Further claims about the chunked contexts *)

\* C14 as stated: an Update given a byte sequence never fails, whatever its
\* format argument.
C14_Original ==
    ret.op \in Updates /\ req.value.type = "bytes" => ret.kind = "ok"

\* C14 as amended: an Update given a byte sequence with format "" or "binary"
\* never fails and appends those bytes; with any other format a byte sequence
\* is refused with the codec's error; and an Update fails exactly when the
\* codec refuses the value under the format, with the codec's error, leaving
\* the context as it was.
C14_UpdateDecodes ==
    [][ret'.op \in Updates =>
         LET x == req'.value
             f == req'.format
         IN  /\ x.type = "bytes" /\ f \in {"", "binary"} =>
                    ret'.kind = "ok" /\ ctx'.plaintext = ctx.plaintext \o x.v
             /\ x.type = "bytes" /\ f \notin {"", "binary"} =>
                    /\ ret'.kind = "error"
                    /\ ret'.err = CASE f = "hex" -> "not a hex string"
                                    [] f = "base64" -> "not a base64 string"
                                    [] OTHER -> "unsupported binary encoding"
             /\ (ret'.kind = "error") <=> (decodeBinary(x, f).err # "")
             /\ ret'.kind = "error" => ret'.err = decodeBinary(x, f).err /\ ctx' = ctx
             /\ ret'.kind \in {"ok", "error"}
      ]_vars

\* a byte sequence was refused under format "hex" after one was appended
C14_Witness ==
    /\ ret.op \in Updates
    /\ req.value = Bytes(<<66>>)
    /\ req.format = "hex"
    /\ ret.kind = "error"
    /\ ret.err = "not a hex string"
    /\ ctx.plaintext = <<65>>

IsPrefix(a, b) == Len(a) <= Len(b) /\ SubSeq(b, 1, Len(a)) = a

\* C16: once a context exists its kind, digest algorithm and options never
\* change; only a successful Update changes its buffer; and every step leaves
\* the previous buffer as a prefix of the new one.
C16_OnlyUpdateMutates ==
    [][ctx.kind # "none" =>
         /\ ctx'.kind = ctx.kind
         /\ ctx'.function = ctx.function
         /\ ctx'.functionEncoded = ctx.functionEncoded
         /\ ctx'.options = ctx.options
         /\ ctx'.plaintext # ctx.plaintext => ret'.op \in Updates /\ ret'.kind = "ok"
         /\ IsPrefix(ctx.plaintext, ctx'.plaintext)
      ]_vars

\* a context with options took a second chunk after a terminal call
C16_Witness ==
    /\ ret.op \in Updates
    /\ ret.kind = "ok"
    /\ hist.finalized = <<1>>
    /\ Len(ctx.plaintext) = 2
    /\ ctx.plaintext[1] # ctx.plaintext[2]
    /\ ctx.options # {}

AllReturned == \A g \in Goroutines : req[g].pc = "done"
Serialized == \A g \in Goroutines : ~req[g].overlapped
WasBuffer == SubSeq(ctx.plaintext, 1, hist.finalized[1])
Appended == SubSeq(ctx.plaintext, hist.finalized[1] + 1, Len(ctx.plaintext))

\* C17: Update takes no lock: while one call stands between its read and its
\* write of the buffer, another call's read is not held back; calls that did
\* not overlap leave the buffer extended by their chunks in call order.  (The
\* witness is the lost append two overlapping calls can leave.)
C17_NoSynchronization ==
    /\ \A g \in Goroutines :
         req[g].pc = "load" /\ (\E o \in Goroutines \ {g} : req[o].pc = "store") =>
             ENABLED UpdateLoad(g)
    /\ AllReturned /\ Serialized =>
         /\ IsPrefix(WasBuffer, ctx.plaintext)
         /\ Appended = Flatten(hist.chunks)

\* both calls returned normally, each with a non-empty chunk, and the buffer
\* holds only one of the chunks
C17_Witness ==
    /\ AllReturned
    /\ \A g \in Goroutines : ret[g].kind = "ok" /\ req[g].addition # <<>>
    /\ Len(hist.chunks) = 2
    /\ Appended \in {hist.chunks[1], hist.chunks[2]}
    /\ Appended # hist.chunks[1] \o hist.chunks[2]
    /\ Appended # hist.chunks[2] \o hist.chunks[1]


----------------------------------------------------------------------------
(* Further claims about the signature engine *)

\* exactly the DER encoding of a SEQUENCE of two INTEGERs
IsDerSignature(b) ==
    /\ asn1Unmarshal(b).err = ""
    /\ asn1Marshal(asn1Unmarshal(b).v) = b
VerifyReached ==
    /\ ret.op \in {"Verify", "Verifier.Verify"}
    /\ Contains(ret.steps, "executeVerify")
    /\ req.key \in ValidPublicKeys

\* C15: for a DSA or ECDSA key, verify given signature bytes that are not the
\* DER encoding of a SEQUENCE of two INTEGERs fails instead of returning a
\* verdict; for an RSA key with a supported padding every signature byte
\* string yields a verdict.
C15_MalformedSignatureThrows ==
    VerifyReached =>
        /\ req.key.Algorithm \in {"DSA", "ECDSA"}
             /\ ~IsDerSignature(decodeSignature(req.signature).v) =>
                 ret.kind = "error" /\ ~ret.verified
        /\ req.key.Algorithm = "RSA" /\ UsedType \in {<<>>, pss} => ret.kind = "ok"

----------------------------------------------------------------------------
(* Claims about the certificate and key parser *)

ParserOps == X509Ops \cup {"parsePrivateKey"}
NoPemBlock(lines) ==
    \A i \in 1..Len(lines) :
        ~(/\ i + 2 <= Len(lines)
          /\ lines[i].t = "begin"
          /\ lines[i + 1].t = "data"
          /\ lines[i + 2].t = "end"
          /\ lines[i + 2].label = lines[i].label)

\* C18: given text that holds no PEM block, each of parse, getSubject,
\* getIssuer, getAltNames, parsePublicKey and parsePrivateKey fails with
\* PemDecodeError, returns no value and reaches no stage after PEM decoding.
C18_NoPemBlock ==
    ret.op \in ParserOps /\ NoPemBlock(req.value.v) =>
        /\ ret.kind = "error"
        /\ ret.err = "PemDecodeError"
        /\ ret.value = NoValue
        /\ ret.steps = <<"pem.Decode">>

\* parsePrivateKey, given a password, refused a BEGIN line and payload with
\* no END line
C18_Witness ==
    /\ ret.op = "parsePrivateKey"
    /\ Lookup(req.options, "password") = "1234"
    /\ Len(req.value.v) = 2
    /\ req.value.v[1].t = "begin"
    /\ req.value.v[2].t = "data"
    /\ ret.err = "PemDecodeError"

DecodedNames ==
    IF ret.kind # "ok" THEN {}
    ELSE LET der == pemDecode(req.value.v).v.der
         IN  CASE ret.op = "parse" -> {<<ret.value.subject, Flatten(der.subject)>>,
                                       <<ret.value.issuer, Flatten(der.issuer)>>}
               [] ret.op = "getSubject" -> {<<ret.value, Flatten(der.subject)>>}
               [] ret.op = "getIssuer" -> {<<ret.value, Flatten(der.issuer)>>}
               [] OTHER -> {}
SingleValued ==
    {<<"commonName", oidCommonName>>, <<"country", oidCountry>>,
     <<"organizationName", oidOrganization>>, <<"stateOrProvinceName", oidProvince>>,
     <<"localityName", oidLocality>>, <<"streetAddress", oidStreetAddress>>,
     <<"postalCode", oidPostalCode>>}
Positions(attributes, oid) == {i \in 1..Len(attributes) : attributes[i].type = oid}
Last(S) == CHOOSE i \in S : \A j \in S : j <= i
RECURSIVE ValuesOf(_, _)
ValuesOf(attributes, oid) ==
    IF attributes = <<>> THEN <<>>
    ELSE (IF Head(attributes).type = oid THEN <<Head(attributes).value>> ELSE <<>>)
         \o ValuesOf(Tail(attributes), oid)

\* C20: in every decoded distinguished name the names list holds one
\* (type, value) entry per attribute in encoding order, duplicates kept; each
\* single-valued field is the value of the last entry of its type and is
\* absent when there is none; organizationalUnitName lists the values of all
\* organizationalUnit entries in order.
C20_NameProjections ==
    \A d \in DecodedNames :
        LET name == d[1]
            attributes == d[2]
        IN  /\ Len(name.names) = Len(attributes)
            /\ \A i \in 1..Len(attributes) :
                 name.names[i] = [type |-> attributes[i].type, value |-> attributes[i].value]
            /\ \A f \in SingleValued :
                 IF Positions(attributes, f[2]) = {} THEN name[f[1]] = NoValue
                 ELSE name[f[1]] = Str(attributes[Last(Positions(attributes, f[2]))].value)
            /\ name.organizationalUnitName = ValuesOf(attributes, oidOrganizationalUnit)

\* a subject with two commonName entries, the second one empty, and an
\* organizationalUnit was decoded
C20_Witness ==
    /\ ret.op = "getSubject"
    /\ ret.kind = "ok"
    /\ Len(ret.value.names) = 3
    /\ ret.value.names[1] = RDN(oidCommonName, "zz")
    /\ ret.value.names[3] = RDN(oidCommonName, "")
    /\ ret.value.commonName = Str("")
    /\ ret.value.organizationalUnitName = <<"zz">>
    /\ ret.value.organizationName = NoValue

\* ---------------------------------------------------------------------------
\* Claims about the options object
\* ---------------------------------------------------------------------------
RecognisedOptions == {"type", "saltLength"}
IsInteger(encoded) ==
    LET digits == IF encoded # <<>> /\ Head(encoded) \in {"+", "-"} THEN Tail(encoded) ELSE encoded
    IN  digits # <<>> /\ \A i \in 1..Len(digits) : Indices(DecDigits, digits[i]) # {}
UnknownOption == \E o \in UsedOptions : o[1] \notin RecognisedOptions
BadSaltLength == \E o \in UsedOptions : o[1] = "saltLength" /\ ~IsInteger(o[2])
OptionWithCurveKey == UsedOptions # {} /\ req.key.Algorithm \in {"DSA", "ECDSA"}
InvalidOptions == UnknownOption \/ BadSaltLength \/ OptionWithCurveKey

\* C21: a Sign or Verify call that reaches the signing or verifying step with a
\* well-formed key and an options object holding an unrecognised key, a
\* saltLength that is not an integer, or any option beside a DSA or ECDSA key
\* ends in an error and returns nothing.
C21_InvalidOptionsFail ==
    (/\ ret.op \in {"Sign", "Verify"}
     /\ req.key \in (ValidPrivateKeys \cup ValidPublicKeys)
     /\ Executed
     /\ InvalidOptions)
        => ret.kind = "error"

\* ---------------------------------------------------------------------------
\* Claims about the signature encoding
\* ---------------------------------------------------------------------------
SignatureRoundTrip == ret.op = "decodeSignature" /\ hist.chunks # <<>>
EmittedFormat == hist.finalized[1]
SignatureReturned ==
    /\ ret.kind = "ok"
    /\ ret.value = Bytes(hist.chunks[1])

OneShotSign ==
    Sign(req.key, ctx.functionEncoded, Bytes(ctx.plaintext), req.format, ctx.options, req.nonce)
OneShotVerify ==
    Verify(req.key, ctx.functionEncoded, Bytes(ctx.plaintext), req.signature, ctx.options)
SameOutcome(o) ==
    /\ ret.kind = o.kind
    /\ ret.err = o.err
    /\ ret.verified = o.verified
FedOnce == Len(hist.chunks) = 1

\* C23: Signer.Sign after a single Update ends as Sign does for the same key,
\* digest name, message, options and format, and Verifier.Verify as Verify does:
\* both succeed, or both fail with the same error, also for a key whose
\* algorithm tag and payload disagree, which both report as an invalid key.
C23_OneShotEquivalence ==
    /\ ret.op = "Signer.Sign" /\ FedOnce => SameOutcome(OneShotSign)
    /\ ret.op = "Verifier.Verify" /\ FedOnce => SameOutcome(OneShotVerify)

\* ---------------------------------------------------------------------------
\* Claims about the order of failures
\* ---------------------------------------------------------------------------
\* what is wrong with the arguments of a Sign call, each judged on its own
KeyBad == req.key \notin ValidPrivateKeys
DigestBad == req.function \notin SupportedDigests
MessageBad == decodeBinaryDetect(req.value).err # ""
PaddingBad == req.key.Algorithm = "RSA" /\ Lookup(req.options, "type") \notin {<<>>, pss}
FormatBad == req.format \notin {"", "binary", "hex", "base64"}
SignSteps == {"rsa.SignPKCS1v15", "rsa.SignPSS", "dsa.Sign", "ecdsa.Sign"}
SignatureComputed == \E step \in SignSteps : Contains(ret.steps, step)
FailedWith(err) == ret.kind = "error" /\ ret.err = err /\ ret.value = NoValue

\* C24: a Sign call with several invalid arguments reports the first failure in
\* the order key, digest name, message decoding, signing (the RSA padding type
\* included), output format; an unsupported output format is reported after
\* a signature was computed and no signature is returned; a call with none of
\* these wrong returns a signature.
C24_FailureOrder ==
    ret.op = "Sign" =>
        IF KeyBad THEN ret.kind = "error" /\ ret.err \in InvalidKeyMessages /\ ret.value = NoValue
        ELSE IF DigestBad THEN FailedWith("unsupported hash function")
        ELSE IF MessageBad
        THEN FailedWith(Wrap(decodeBinaryDetect(req.value).err, "could not decode data"))
        ELSE IF PaddingBad THEN FailedWith("unsupported type") /\ ~SignatureComputed
        ELSE IF FormatBad
        THEN FailedWith("unsupported binary encoding") /\ SignatureComputed
        ELSE ret.kind = "ok" /\ SignatureComputed /\ ret.value # NoValue

\* every argument of the call was wrong and the key was the failure reported
C24_Witness ==
    /\ ret.op = "Sign"
    /\ KeyBad /\ DigestBad /\ MessageBad /\ FormatBad
    /\ Lookup(req.options, "type") = oaep
    /\ ret.err \in InvalidKeyMessages

\* ---------------------------------------------------------------------------
\* Claims about a failed Update
\* ---------------------------------------------------------------------------
UpdateFailed == ret.op \in Updates /\ ret.kind = "error"

\* C25: an Update that throws leaves the context as it was (buffer, digest
\* name and algorithm, options), and the script then goes on from the very
\* state in which it made the call, so that later Update and terminal calls
\* are those of a context on which the failed Update was never called.
C25_FailedUpdateLeavesContext ==
    [][/\ UpdateFailed' /\ ~UpdateFailed => req = Session /\ ret = NoRet /\ ctx' = ctx /\ hist' = hist
       /\ UpdateFailed => req' = Session /\ ret' = NoRet /\ ctx' = ctx /\ hist' = hist]_vars

\* an Update failed on a context whose buffer held bytes
C25_Witness ==
    /\ UpdateFailed
    /\ ctx.plaintext # <<>>
    /\ ctx.plaintext = Flatten(hist.chunks)
    /\ req.value.type = "bytes"

\* ---------------------------------------------------------------------------
\* Claims about string messages
\* ---------------------------------------------------------------------------
StringOps == {"SignString", "VerifyString"}
CodecOps == {"Sign", "Verify"}
Verifies == ret.op \in {"Verify", "VerifyString"}
\* the call's key and digest name are good, and so is its signature if it has one
Prepares ==
    /\ req.key \in (IF Verifies THEN ValidPublicKeys ELSE ValidPrivateKeys)
    /\ req.function \in SupportedDigests
    /\ Verifies => decodeSignature(req.signature).err = ""
DigestOf(bytes) == hashPlaintext(req.function, bytes).v

\* SignString and VerifyString digest the bytes of the string, whatever it holds
StringDigested ==
    ret.op \in StringOps /\ Prepares =>
        /\ Executed
        /\ ret.digest = DigestOf(stringBytes(req.value.v))
\* Sign and Verify digest what the codec detects in a string, or reject it
CodecDigested ==
    ret.op \in CodecOps /\ Prepares /\ req.value.type = "string" =>
        IF HexOk(req.value) \/ Base64Ok(req.value)
        THEN Executed /\ ret.digest = DigestOf(decodeBinaryDetect(req.value).v)
        ELSE FailedWith("could not decode data: unrecognized binary encoding")
\* VerifyString was given what SignString returned for its hex-text message
SignedHexString ==
    /\ ret.op = "VerifyString"
    /\ req.key \in ValidPublicKeys
    /\ HexOk(req.value)
    /\ \E n \in Nonces :
         Bind(SignString(MatchingPrivateKey(req.key), req.function, req.value.v, "",
                         req.options, n),
              LAMBDA signed : signed.kind = "ok" /\ req.signature = signed.value)
VerifyAccepts == Verify(req.key, req.function, req.value, req.signature, req.options).verified

\* the claim as stated: Verify never accepts SignString's signature of hex text
C26_Original ==
    /\ StringDigested
    /\ CodecDigested
    /\ SignedHexString => ret.verified /\ ~VerifyAccepts

\* C26: SignString and VerifyString digest exactly the bytes of the string,
\* hex or base64 text included; Sign and Verify given a string digest its
\* detected decoding and reject a string that is neither hex nor base64; a
\* signature SignString made of a hex-text string verifies under VerifyString
\* and, unless the string is empty, does not verify under Verify.
C26_StringMessage ==
    /\ StringDigested
    /\ CodecDigested
    /\ SignedHexString => ret.verified /\ (VerifyAccepts <=> req.value.v = <<>>)

\* VerifyString accepted SignString's signature of "42", which Verify refuses
C26_Witness ==
    /\ SignedHexString
    /\ req.value = Str(<<"4", "2">>)
    /\ ret.verified
    /\ ret.digest = <<HashId(req.function), 52, 50>>
    /\ ~VerifyAccepts

====
